---- MODULE Spec2Model ----
(***************************************************************************)
(* MindInk: the Headset device session (JSON-RPC handshake over a socket), *)
(* the HeadsetController command gate (intensity threshold and debounce)   *)
(* and the MenuNavigator two-level selection, as state machines.           *)
(*                                                                         *)
(* Encoding of JavaScript values:                                          *)
(*  - undefined / null string-valued fields are the string Undefined;      *)
(*  - an absent message id is NoId;                                        *)
(*  - a JSON object is the set of its <<path, leaf value>> pairs, an array *)
(*    being the object of its indices; JSON.stringify omits the fields     *)
(*    whose value is undefined (Obj below);                                *)
(*  - intensities are in hundredths (0.5 is 50), times in milliseconds.    *)
(***************************************************************************)
EXTENDS Integers, Sequences, FiniteSets, TLC

VARIABLES
  socket,          \* Headset.socket: Undefined, "connecting" or "open"
  connected,       \* Headset.connected
  handlers,        \* Headset.handlers: the ids that have a handler in the Map
  sessionID,       \* Headset.sessionID
  authToken,       \* Headset.authToken
  headsetID,       \* Headset.headsetID
  commandHandler,  \* Headset.commandHandler: Undefined or "controller"
  sent,            \* the requests passed to socket.send, in order
  dispatched,      \* ids whose handler was invoked and ran to its end
  lastEvent,       \* what happened last: the branch the message listener
                   \* took (and the id it looked up when it dropped the
                   \* message), or the Escape keybind
  now,             \* Date.now()
  lastActionTime,  \* HeadsetController.lastActionTime
  currentMenu,     \* MenuNavigator.currentMenu
  executed,        \* the menu actions invoked, in order
  filter,          \* a KalmanFilter: processNoise, measurementNoise, state,
                   \* uncertainty
  twin,            \* a KalmanFilter constructed anew at every reset() of
                   \* filter and fed the same measurements since
  fed,             \* the number of update() calls made on filter
  filterOp,        \* the last call made on filter
  kalmanFilterX,   \* FaceTracker.kalmanFilterX
  kalmanFilterY,   \* FaceTracker.kalmanFilterY
  smoothedOffsetX, \* FaceTracker.smoothedOffsetX
  smoothedOffsetY, \* FaceTracker.smoothedOffsetY
  prevCanvasX,     \* FaceTracker.prevCanvasX: Null or Some(x)
  prevCanvasY,     \* FaceTracker.prevCanvasY: Null or Some(y)
  scalingFactor,   \* FaceTracker.scalingFactor
  trackerCalibration, \* FaceTracker.calibrationData: Null or
                   \* Some(directionScaling)
  canvas,          \* drawingCanvas.canvas: width and height in content
  isTimeUp,        \* CountdownController.isTimeUp
  frames,          \* the number of samples processed by onResults
  seenX,           \* the raw eye-x values of the samples processed
  gazeOp,          \* the last call made on the FaceTracker
  overlayHidden,   \* HeadCalibration.overlay has the class "hidden"
  startBtnDisabled, \* HeadCalibration.startBtn.disabled
  skipBtnDisabled, \* HeadCalibration.skipBtn.disabled
  isCalibrating,   \* HeadCalibration.isCalibrating
  currentPhase,    \* HeadCalibration.currentPhase
  phaseData,       \* HeadCalibration.phaseData: the samples of each phase
  samples,         \* the samples array of the running calibrateDirection
  timer,           \* the pending timer of the calibration and the
                   \* direction its callback closes over
  calibrationData, \* HeadCalibration.calibrationData
  storedCalibration, \* localStorage "headCalibration": Null or Some(text)
  entered,         \* the directions passed to calibrateDirection, in order
  processed,       \* how often processCalibrationData has run
  storedCredentials, \* localStorage "cortex_credentials": Null or
                   \* Some(text)
  startupPending,  \* whether the calibration timeout of window.onload is
                   \* still to fire
  earlier,         \* the Headset objects HeadsetController.headset no
                   \* longer refers to whose socket was never closed
  isDrawing,       \* CanvasDrawing.isDrawing
  isErasing,       \* CanvasDrawing.isErasing
  currentColor,    \* CanvasDrawing.currentColor
  undoStack,       \* CanvasDrawing.undoStack
  redoStack,       \* CanvasDrawing.redoStack
  content          \* the content of the drawing canvas: the strokes that
                   \* make it up, in order

sessionVars == <<socket, connected, handlers, sessionID, authToken, headsetID,
                 commandHandler, sent, dispatched>>
drawingVars == <<isDrawing, isErasing, currentColor, undoStack, redoStack,
                 content>>
menuVars == <<lastActionTime, currentMenu, executed, drawingVars>>
deviceVars == <<sessionVars, lastEvent, now, menuVars>>
kalmanVars == <<filter, twin, fed, filterOp>>
gazeVars == <<kalmanFilterX, kalmanFilterY, smoothedOffsetX, smoothedOffsetY,
              prevCanvasX, prevCanvasY, scalingFactor, trackerCalibration,
              canvas, isTimeUp, frames, seenX, gazeOp>>
calibrationVars == <<overlayHidden, startBtnDisabled, skipBtnDisabled,
                     isCalibrating, currentPhase, phaseData, samples, timer,
                     calibrationData, storedCalibration, entered, processed>>
pageVars == <<storedCredentials, startupPending, earlier>>
signalVars == <<kalmanVars, gazeVars, calibrationVars, pageVars>>
vars == <<socket, connected, handlers, sessionID, authToken, headsetID,
          commandHandler, sent, dispatched, lastEvent, now, lastActionTime,
          currentMenu, executed, drawingVars, signalVars>>

----------------------------------------------------------------------------
(* Protocol constants *)

REQUEST_ACCESS_ID == 1
QUERY_HEADSET_ID == 2
CONTROL_DEVICE_ID == 3
AUTHORISE_ID == 4
CREATE_SESSION_ID == 5
SUB_REQUEST_ID == 6

Undefined == "<undefined>"
NoId == 0
NullMenu == -1

\* HeadsetController: this.streams, this.actionDelay, the intensity gate
Streams == <<"com">>
ActionDelay == 1000
IntensityThreshold == 50

\* the credentials HeadsetController.initialize hands to the Headset
User == [clientID |-> "cid", clientSecret |-> "secret"]

----------------------------------------------------------------------------
(* Bounds *)

MaxSent == 6          \* requests recorded in sent
MaxExecuted == 2      \* menu actions recorded in executed
MaxElapsed == 2400    \* milliseconds the clock runs after page load
PageLoadTime == 100000 \* Date.now() when the page is loaded
TickMs == 100         \* granularity of the clock

MaxUpdates == 4       \* update() calls made on one KalmanFilter
MaxFrames == 3        \* samples processed by the FaceTracker
MaxSamples == 4       \* cursor samples collected in one calibration run
MaxScalingFactor == 20000  \* the scale the ArrowUp key is pressed up to
MaxEarlier == 2       \* Headset objects replaced by a later initialize()
MaxHistory == 2       \* snapshots kept on the undo and redo stacks together
MaxStrokes == 1       \* strokes painted on the canvas

----------------------------------------------------------------------------
(* Numbers *)

\* Numbers are decimal fixed-point values: the integer n stands for
\* n / Scale, and every product and quotient is rounded to the nearest
\* representable value, as floating-point arithmetic rounds each operation.
Scale == 10000
One == Scale

\* n / d rounded to the nearest integer (d > 0)
Round(n, d) == (2 * n + d) \div (2 * d)

\* a * b and a / b on fixed-point values
Mul(a, b) == Round(a * b, Scale)
Div(a, b) == Round(a * Scale, b)

----------------------------------------------------------------------------
(* KalmanFilter *)

\* the defaults of the constructor's parameters
DefaultProcessNoise == 100        \* 0.01
DefaultMeasurementNoise == 1000   \* 0.1
DefaultInitialState == 0

\* new KalmanFilter(processNoise, measurementNoise, initialState)
NewKalmanFilter(processNoise, measurementNoise, initialState) ==
  [processNoise |-> processNoise, measurementNoise |-> measurementNoise,
   state |-> initialState, uncertainty |-> One]

\* mutant: the gain is not normalised by the predicted uncertainty
updateUnnormalised(f, measurement) ==
  LET predictedUncertainty == f.uncertainty + f.processNoise
      kalmanGain == Div(predictedUncertainty, f.measurementNoise)
  IN [f EXCEPT !.state = f.state + Mul(kalmanGain, measurement - f.state),
               !.uncertainty = Mul(One - kalmanGain, predictedUncertainty)]

\* mutant: the uncertainty is scaled by 1 + gain
updateGainAdded(f, measurement) ==
  LET predictedUncertainty == f.uncertainty + f.processNoise
      kalmanGain == Div(predictedUncertainty,
                        predictedUncertainty + f.measurementNoise)
  IN [f EXCEPT !.state = f.state + Mul(kalmanGain, measurement - f.state),
               !.uncertainty = Mul(One + kalmanGain, predictedUncertainty)]

\* KalmanFilter.update: the filter after update(measurement); the value
\* returned is its state
update(f, measurement) ==
  LET predictedUncertainty == f.uncertainty + f.processNoise
      kalmanGain == Div(predictedUncertainty,
                        predictedUncertainty + f.measurementNoise)
  IN [f EXCEPT !.state = f.state + Mul(kalmanGain, measurement - f.state),
               !.uncertainty = Mul(One - kalmanGain, predictedUncertainty)]

\* mutant: reset() forgets the estimate and keeps the uncertainty
resetStateOnly(f) == [f EXCEPT !.state = 0]

\* KalmanFilter.reset
reset(f) == [f EXCEPT !.state = 0, !.uncertainty = One]

\* the noise parameters and the measurements the filter is exercised with
ProcessNoises == {0, DefaultProcessNoise, One \div 2}
MeasurementNoises == {DefaultMeasurementNoise, One}
Measurements == {0, One \div 2, One}

\* a filter constructed with the default initial state, and its twin
InitKalman(q, r) ==
  /\ filter = NewKalmanFilter(q, r, DefaultInitialState)
  /\ twin = NewKalmanFilter(q, r, DefaultInitialState)
  /\ fed = 0
  /\ filterOp = "new"

\* a call of update(measurement); the twin is fed the same measurement
KalmanUpdate ==
  /\ fed < MaxUpdates
  /\ \E measurement \in Measurements :
       /\ filter' = update(filter, measurement)
       /\ twin' = update(twin, measurement)
  /\ fed' = fed + 1
  /\ filterOp' = "update"
  /\ UNCHANGED <<deviceVars, gazeVars, calibrationVars, pageVars>>

\* a call of reset(); the twin is replaced by a newly constructed filter
KalmanReset ==
  /\ filter' = reset(filter)
  /\ twin' = NewKalmanFilter(twin.processNoise, twin.measurementNoise,
                             DefaultInitialState)
  /\ filterOp' = "reset"
  /\ UNCHANGED <<fed, deviceVars, gazeVars, calibrationVars, pageVars>>

----------------------------------------------------------------------------
(* FaceTracker *)

\* null, and a value that is not null
Null == <<>>
Some(v) == <<v>>

\* the decimal digits of a number, as JSON.stringify writes it
RECURSIVE Digits(_)
Digits(n) == IF n < 10 THEN <<n>> ELSE Append(Digits(n \div 10), n % 10)

\* the number JSON.parse reads from decimal digits
RECURSIVE Value(_)
Value(ds) ==
  IF Len(ds) = 0 THEN 0
  ELSE 10 * Value(SubSeq(ds, 1, Len(ds) - 1)) + ds[Len(ds)]

\* A text kept in localStorage: the JSON text of an object, which holds its
\* members under their paths and leaves out a member that is undefined
\* (Null), or a text that is not JSON
JSONstringify(members) ==
  [json |-> { <<m[1], m[2][1]>> : m \in { n \in members : n[2] # Null } }]
NotJSON == [garbage |-> TRUE]

\* whether JSON.parse returns for a text (it throws otherwise), and the
\* members of the object it returns
Parses(text) == "json" \in DOMAIN text
JSONparse(text) == text.json

\* object[path] of a parsed object: undefined (Null) for a member it lacks
Member(object, path) ==
  IF \E m \in object : m[1] = path
  THEN Some((CHOOSE m \in object : m[1] = path)[2])
  ELSE Null

\* CredentialManager.saveCredentials: the item written for the credentials
saveCredentials(user) ==
  Some(JSONstringify({ <<"clientID", Some(user.clientID)>>,
                       <<"clientSecret", Some(user.clientSecret)>> }))

\* Math.abs and Math.sign
Abs(x) == IF x < 0 THEN -x ELSE x
Sign(x) == IF x > 0 THEN 1 ELSE IF x < 0 THEN -1 ELSE 0

\* the fields the constructor sets
DefaultScalingFactor == 20000   \* 2.0
SensitivityStep == 5000         \* 0.5
EmaAlpha == 2500                \* 0.25
MaxStepFraction == 600          \* 0.06

\* the size of the canvas at page load, and the sizes resizeCanvas gives it
LoadedCanvas == [width |-> 800, height |-> 600]
CanvasSizes == { LoadedCanvas, [width |-> 500, height |-> 700] }

\* a landmark, and the faces a frame can show: the eyes at the far left of
\* the source frame or at its right, high or low
Landmark(x, y) == [x |-> x, y |-> y]
Faces ==
  { [leftEye |-> Landmark(0, 2000), rightEye |-> Landmark(0, 2000)],
    [leftEye |-> Landmark(0, 8000), rightEye |-> Landmark(0, 9000)],
    [leftEye |-> Landmark(9000, 2000), rightEye |-> Landmark(One, 2000)],
    [leftEye |-> Landmark(9000, 8000), rightEye |-> Landmark(One, 9000)] }

\* results.multiFaceLandmarks: no face, or the one face maxNumFaces allows
Results == {<<>>} \cup { <<f>> : f \in Faces }

\* the average eye position of a face
RawEyeX(landmarks) == Round(landmarks.leftEye.x + landmarks.rightEye.x, 2)
RawEyeY(landmarks) == Round(landmarks.leftEye.y + landmarks.rightEye.y, 2)

\* directionScaling.<direction> || 1.0
OrOne(v) == IF v = 0 THEN One ELSE v

\* the scaling of an axis: scalingFactor, times the multiplier of the
\* direction the offset points to when a calibration is set
AxisScaling(offset, low, high) ==
  IF trackerCalibration # Null
  THEN Mul(scalingFactor,
           IF offset < 0 THEN OrOne(trackerCalibration[1][low])
                         ELSE OrOne(trackerCalibration[1][high]))
  ELSE scalingFactor

\* exponential moving average
Smooth(smoothed, offset) == smoothed + Mul(EmaAlpha, offset - smoothed)

\* mutant: the x axis is not mirrored
ToCanvasXUnmirrored(smoothed) ==
  (canvas.width * Scale) \div 2 + smoothed * canvas.width

\* canvas coordinates: centerX - smoothedOffsetX * width and
\* centerY + smoothedOffsetY * height
ToCanvasX(smoothed) == (canvas.width * Scale) \div 2 - smoothed * canvas.width
ToCanvasY(smoothed) == (canvas.height * Scale) \div 2 + smoothed * canvas.height

\* mutant: only a step in the positive direction is clamped
ClampPositiveOnly(coord, prev, maxStep) ==
  IF coord - prev > maxStep THEN prev + Sign(coord - prev) * maxStep
                            ELSE coord

\* the delta clamp of one axis
Clamp(coord, prev, maxStep) ==
  IF Abs(coord - prev) > maxStep THEN prev + Sign(coord - prev) * maxStep
                                 ELSE coord

\* FaceTracker.onResults for one face: the fields after it, and the point
\* passed to drawingCanvas.draw
Sample(landmarks) ==
  LET kx == update(kalmanFilterX, RawEyeX(landmarks))
      ky == update(kalmanFilterY, RawEyeY(landmarks))
      eyeOffsetX == kx.state - One \div 2
      eyeOffsetY == ky.state - One \div 2
      offsetX == Mul(eyeOffsetX, AxisScaling(eyeOffsetX, "left", "right"))
      offsetY == Mul(eyeOffsetY, AxisScaling(eyeOffsetY, "up", "down"))
      sx == Smooth(smoothedOffsetX, offsetX)
      sy == Smooth(smoothedOffsetY, offsetY)
      clamped == prevCanvasX # Null /\ prevCanvasY # Null
  IN [kalmanFilterX |-> kx, kalmanFilterY |-> ky,
      smoothedOffsetX |-> sx, smoothedOffsetY |-> sy,
      canvasX |-> IF clamped
                  THEN Clamp(ToCanvasX(sx), prevCanvasX[1],
                             canvas.width * MaxStepFraction)
                  ELSE ToCanvasX(sx),
      canvasY |-> IF clamped
                  THEN Clamp(ToCanvasY(sy), prevCanvasY[1],
                             canvas.height * MaxStepFraction)
                  ELSE ToCanvasY(sy)]

\* CanvasDrawing

COLOR_BLACK == "#000000"
COLOR_RED == "#ff0000"
COLOR_GREEN == "#00ff00"
COLOR_ERASE == "rgba(0,0,0,1)"

\* saveCanvasState drops the oldest snapshot above this length
UndoLimit == 20

\* ctx.getImageData over the whole canvas when the canvas holds data
Captured(data) ==
  [width |-> canvas.width, height |-> canvas.height, data |-> data]

\* the snapshot of the canvas as it is
Snapshot == Captured(content)

\* an image drawn scaled to another size: every stroke in it is resampled
Resampled(data) ==
  [ i \in 1..Len(data) |-> [data[i] EXCEPT !.resampled = TRUE] ]

\* mutant: the redo stack is kept
saveCanvasStateKeepsRedo ==
  /\ redoStack' = redoStack
  /\ undoStack' = (LET pushed == Append(undoStack, Snapshot)
                   IN IF Len(pushed) > UndoLimit THEN Tail(pushed) ELSE pushed)

\* mutant: the oldest snapshot is never dropped
saveCanvasStateUnbounded ==
  /\ redoStack' = <<>>
  /\ undoStack' = Append(undoStack, Snapshot)

\* CanvasDrawing.saveCanvasState
saveCanvasState ==
  /\ redoStack' = <<>>
  /\ undoStack' = (LET pushed == Append(undoStack, Snapshot)
                   IN IF Len(pushed) > UndoLimit THEN Tail(pushed) ELSE pushed)

\* CanvasDrawing.restoreCanvasState: the canvas after it
restoreCanvasState(state) ==
  IF state.width = canvas.width /\ state.height = canvas.height
  THEN state.data
  ELSE Resampled(state.data)

\* the undo stack, the redo stack and the canvas content
Drawing ==
  [undoStack |-> undoStack, redoStack |-> redoStack, content |-> content]

\* mutant: undo does not keep the current state for redo
undoneForgetting(d) ==
  IF Len(d.undoStack) > 0
  THEN [undoStack |-> SubSeq(d.undoStack, 1, Len(d.undoStack) - 1),
        redoStack |-> d.redoStack,
        content |-> restoreCanvasState(d.undoStack[Len(d.undoStack)])]
  ELSE d

\* the body of CanvasDrawing.undo: stacks and content after it
undone(d) ==
  IF Len(d.undoStack) > 0
  THEN [undoStack |-> SubSeq(d.undoStack, 1, Len(d.undoStack) - 1),
        redoStack |-> Append(d.redoStack, Captured(d.content)),
        content |-> restoreCanvasState(d.undoStack[Len(d.undoStack)])]
  ELSE d

\* the body of CanvasDrawing.redo: stacks and content after it
redone(d) ==
  IF Len(d.redoStack) > 0
  THEN [undoStack |-> Append(d.undoStack, Captured(d.content)),
        redoStack |-> SubSeq(d.redoStack, 1, Len(d.redoStack) - 1),
        content |-> restoreCanvasState(d.redoStack[Len(d.redoStack)])]
  ELSE d

\* the stacks and the content become those of d
Becomes(d) ==
  /\ undoStack' = d.undoStack
  /\ redoStack' = d.redoStack
  /\ content' = d.content
  /\ UNCHANGED <<isDrawing, isErasing, currentColor>>

\* CanvasDrawing.undo
undo == IF isTimeUp THEN UNCHANGED drawingVars ELSE Becomes(undone(Drawing))

\* CanvasDrawing.redo
redo == IF isTimeUp THEN UNCHANGED drawingVars ELSE Becomes(redone(Drawing))

\* the stroke draw() adds: source-over in the current colour, or
\* destination-out, which leaves an empty canvas empty
Stroke(data, erasing, color) ==
  IF erasing
  THEN IF data = <<>>
       THEN data
       ELSE Append(data, [ink |-> COLOR_ERASE, resampled |-> FALSE])
  ELSE Append(data, [ink |-> color, resampled |-> FALSE])

\* CanvasDrawing.draw (the cursor and lastX, lastY follow the point given)
draw ==
  /\ content' = (IF isDrawing
                THEN Stroke(content, isErasing, currentColor)
                ELSE content)
  /\ UNCHANGED <<isDrawing, isErasing, currentColor, undoStack, redoStack>>

\* CanvasDrawing.startDrawing
startDrawing ==
  IF isTimeUp
  THEN UNCHANGED drawingVars
  ELSE /\ IF ~isDrawing
          THEN saveCanvasState
          ELSE UNCHANGED <<undoStack, redoStack>>
       /\ isDrawing' = TRUE
       /\ UNCHANGED <<isErasing, currentColor, content>>

\* mutant: stopDrawing puts the eraser away as well
stopDrawingAndErasing ==
  /\ isDrawing' = FALSE
  /\ isErasing' = FALSE
  /\ UNCHANGED <<currentColor, undoStack, redoStack, content>>

\* CanvasDrawing.stopDrawing
stopDrawing ==
  /\ isDrawing' = FALSE
  /\ UNCHANGED <<isErasing, currentColor, undoStack, redoStack, content>>

\* CanvasDrawing.toggleEraser
toggleEraser ==
  IF isTimeUp
  THEN UNCHANGED drawingVars
  ELSE /\ isErasing' = ~isErasing
       /\ IF isErasing'
          THEN /\ IF ~isDrawing
                  THEN saveCanvasState
                  ELSE UNCHANGED <<undoStack, redoStack>>
               /\ isDrawing' = TRUE
          ELSE /\ isDrawing' = FALSE
               /\ UNCHANGED <<undoStack, redoStack>>
       /\ UNCHANGED <<currentColor, content>>

\* CanvasDrawing.clearCanvas
clearCanvas ==
  IF isTimeUp
  THEN UNCHANGED drawingVars
  ELSE /\ saveCanvasState
       /\ content' = <<>>
       /\ UNCHANGED <<isDrawing, isErasing, currentColor>>

\* mutant: setColor without the countdown test
setColorUnblocked(color) ==
  /\ currentColor' = color
  /\ UNCHANGED <<isDrawing, isErasing, undoStack, redoStack, content>>

\* CanvasDrawing.setColor
setColor(color) ==
  IF isTimeUp
  THEN UNCHANGED drawingVars
  ELSE /\ currentColor' = color
       /\ UNCHANGED <<isDrawing, isErasing, undoStack, redoStack, content>>

\* the keys KeybindManager.setupKeybinds binds to the drawing canvas
DrawingKeys == {"s", "x", "e", "c", "z", "y", "1", "2", "4"}

\* KeybindManager.keybinds.get(key)
keybinds(key) ==
  CASE key = "s" -> startDrawing
    [] key = "x" -> stopDrawing
    [] key = "e" -> toggleEraser
    [] key = "c" -> clearCanvas
    [] key = "z" -> undo
    [] key = "y" -> redo
    [] key = "1" -> setColor(COLOR_RED)
    [] key = "2" -> setColor(COLOR_GREEN)
    [] key = "4" -> setColor(COLOR_BLACK)

\* the action of a menu section, by its name
menuAction(name) ==
  CASE name = "Start Drawing" -> startDrawing
    [] name = "Stop Drawing" -> stopDrawing
    [] name = "Toggle Eraser" -> toggleEraser
    [] name = "Undo" -> undo
    [] name = "Redo" -> redo
    [] name = "Clear Canvas" -> clearCanvas
    [] name = "Red" -> setColor(COLOR_RED)
    [] name = "Green" -> setColor(COLOR_GREEN)
    [] name = "Black" -> setColor(COLOR_BLACK)

\* the keydown listener of KeybindManager, the key drawn from keys
Press(keys) ==
  /\ \E key \in keys : keybinds(key)
  /\ UNCHANGED <<sessionVars, lastEvent, now, lastActionTime, currentMenu,
                 executed, signalVars>>

\* any key bound to the canvas
Keydown == Press(DrawingKeys)

\* a key that starts or stops a stroke, clears, undoes or redoes
HistoryKeys == {"s", "x", "e", "c", "z", "y"}
KeydownHistory == Press(HistoryKeys)

\* new CanvasDrawing
InitDrawing ==
  /\ isDrawing = FALSE
  /\ isErasing = FALSE
  /\ currentColor = COLOR_BLACK
  /\ undoStack = <<>>
  /\ redoStack = <<>>
  /\ content = <<>>

\* mutant: a frame without a face resets the filters
OnResultsResetting(frames_) ==
  \E results \in frames_ :
    /\ IF isTimeUp
       THEN /\ gazeOp' = "blocked"
            /\ UNCHANGED <<kalmanFilterX, kalmanFilterY, smoothedOffsetX,
                           smoothedOffsetY, prevCanvasX, prevCanvasY, frames,
                           seenX, drawingVars>>
       ELSE IF Len(results) > 0
       THEN LET after == Sample(results[1]) IN
            /\ frames < MaxFrames
            /\ kalmanFilterX' = after.kalmanFilterX
            /\ kalmanFilterY' = after.kalmanFilterY
            /\ smoothedOffsetX' = after.smoothedOffsetX
            /\ smoothedOffsetY' = after.smoothedOffsetY
            /\ prevCanvasX' = Some(after.canvasX)
            /\ prevCanvasY' = Some(after.canvasY)
            /\ frames' = frames + 1
            /\ seenX' = seenX \cup {RawEyeX(results[1])}
            /\ gazeOp' = "sample"
            /\ draw
       ELSE /\ gazeOp' = "no face"
            /\ kalmanFilterX' = reset(kalmanFilterX)
            /\ kalmanFilterY' = reset(kalmanFilterY)
            /\ UNCHANGED <<smoothedOffsetX, smoothedOffsetY, prevCanvasX,
                           prevCanvasY, frames, seenX, drawingVars>>
    /\ UNCHANGED <<scalingFactor, trackerCalibration, canvas, isTimeUp,
                   sessionVars, lastEvent, now, lastActionTime, currentMenu,
                   executed, kalmanVars, calibrationVars, pageVars>>

\* the results callback of the face mesh, the frame drawn from frames_
OnResultsFrom(frames_) ==
  \E results \in frames_ :
    /\ IF isTimeUp
       THEN /\ gazeOp' = "blocked"
            /\ UNCHANGED <<kalmanFilterX, kalmanFilterY, smoothedOffsetX,
                           smoothedOffsetY, prevCanvasX, prevCanvasY, frames,
                           seenX, drawingVars>>
       ELSE IF Len(results) > 0
       THEN LET after == Sample(results[1]) IN
            /\ frames < MaxFrames
            /\ kalmanFilterX' = after.kalmanFilterX
            /\ kalmanFilterY' = after.kalmanFilterY
            /\ smoothedOffsetX' = after.smoothedOffsetX
            /\ smoothedOffsetY' = after.smoothedOffsetY
            /\ prevCanvasX' = Some(after.canvasX)
            /\ prevCanvasY' = Some(after.canvasY)
            /\ frames' = frames + 1
            /\ seenX' = seenX \cup {RawEyeX(results[1])}
            /\ gazeOp' = "sample"
            /\ draw
       ELSE /\ gazeOp' = "no face"
            /\ UNCHANGED <<kalmanFilterX, kalmanFilterY, smoothedOffsetX,
                           smoothedOffsetY, prevCanvasX, prevCanvasY, frames,
                           seenX, drawingVars>>
    /\ UNCHANGED <<scalingFactor, trackerCalibration, canvas, isTimeUp,
                   sessionVars, lastEvent, now, lastActionTime, currentMenu,
                   executed, kalmanVars, calibrationVars, pageVars>>

\* any frame
OnResults == OnResultsFrom(Results)

\* a frame of a head held still, or of no face
StillResults == {<<>>, <<CHOOSE f \in Faces : f.leftEye.x > 0 /\ f.leftEye.y < 5000>>}
Glance == OnResultsFrom(StillResults)

\* the ArrowUp key: FaceTracker.increaseSensitivity
IncreaseSensitivity ==
  /\ scalingFactor + SensitivityStep <= MaxScalingFactor
  /\ scalingFactor' = scalingFactor + SensitivityStep
  /\ UNCHANGED <<kalmanFilterX, kalmanFilterY, smoothedOffsetX,
                 smoothedOffsetY, prevCanvasX, prevCanvasY,
                 trackerCalibration, canvas, isTimeUp, frames, seenX, gazeOp,
                 deviceVars, kalmanVars, calibrationVars, pageVars>>

\* mutant: decreaseSensitivity without its test
decreaseSensitivityUnguarded(factor) == factor - SensitivityStep

\* FaceTracker.decreaseSensitivity: the scaling factor after it
decreaseSensitivity(factor) ==
  IF factor > SensitivityStep THEN factor - SensitivityStep ELSE factor

\* the ArrowDown key
DecreaseSensitivity ==
  /\ scalingFactor' = decreaseSensitivity(scalingFactor)
  /\ UNCHANGED <<kalmanFilterX, kalmanFilterY, smoothedOffsetX,
                 smoothedOffsetY, prevCanvasX, prevCanvasY,
                 trackerCalibration, canvas, isTimeUp, frames, seenX, gazeOp,
                 deviceVars, kalmanVars, calibrationVars, pageVars>>

\* FaceTracker.resetFilters
ResetFilters ==
  /\ kalmanFilterX' = reset(kalmanFilterX)
  /\ kalmanFilterY' = reset(kalmanFilterY)
  /\ gazeOp' = "reset"
  /\ UNCHANGED <<smoothedOffsetX, smoothedOffsetY, prevCanvasX, prevCanvasY,
                 scalingFactor, trackerCalibration, canvas, isTimeUp, frames,
                 seenX, deviceVars, kalmanVars, calibrationVars, pageVars>>

\* the window is resized: drawingCanvas.resizeCanvas as window.onload
\* replaces it, which draws the content again scaled to the new size
ResizeCanvas ==
  /\ \E size \in CanvasSizes : size # canvas /\ canvas' = size
  /\ content' = Resampled(content)
  /\ UNCHANGED <<kalmanFilterX, kalmanFilterY, smoothedOffsetX,
                 smoothedOffsetY, prevCanvasX, prevCanvasY, scalingFactor,
                 trackerCalibration, isTimeUp, frames, seenX, sessionVars,
                 lastEvent, now, lastActionTime, currentMenu, executed,
                 isDrawing, isErasing, currentColor, undoStack, redoStack,
                 kalmanVars, gazeOp, calibrationVars, pageVars>>

\* CountdownController.showPensAway: the countdown has run out
ShowPensAway ==
  /\ ~isTimeUp
  /\ isTimeUp' = TRUE
  /\ UNCHANGED <<kalmanFilterX, kalmanFilterY, smoothedOffsetX,
                 smoothedOffsetY, prevCanvasX, prevCanvasY, scalingFactor,
                 trackerCalibration, canvas, frames, seenX, deviceVars,
                 kalmanVars, gazeOp, calibrationVars, pageVars>>

\* CountdownController.hidePensAway: the overlay is dismissed
HidePensAway ==
  /\ isTimeUp
  /\ isTimeUp' = FALSE
  /\ UNCHANGED <<kalmanFilterX, kalmanFilterY, smoothedOffsetX,
                 smoothedOffsetY, prevCanvasX, prevCanvasY, scalingFactor,
                 trackerCalibration, canvas, frames, seenX, deviceVars,
                 kalmanVars, gazeOp, calibrationVars, pageVars>>

\* new FaceTracker, the canvas sized at page load, new CountdownController
InitTracker ==
  /\ kalmanFilterX = NewKalmanFilter(DefaultProcessNoise,
                                     DefaultMeasurementNoise,
                                     DefaultInitialState)
  /\ kalmanFilterY = NewKalmanFilter(DefaultProcessNoise,
                                     DefaultMeasurementNoise,
                                     DefaultInitialState)
  /\ smoothedOffsetX = 0
  /\ smoothedOffsetY = 0
  /\ prevCanvasX = Null
  /\ prevCanvasY = Null
  /\ scalingFactor = DefaultScalingFactor
  /\ trackerCalibration = Null
  /\ canvas = LoadedCanvas
  /\ isTimeUp = FALSE
  /\ frames = 0
  /\ seenX = {}
  /\ gazeOp = "new"

----------------------------------------------------------------------------
(* HeadCalibration *)

\* the directions calibrated, in the order of calibrateDirection
Directions == <<"left", "right", "up", "down">>

\* directions.indexOf(direction), from 1
IndexOf(direction) == CHOOSE i \in 1..Len(Directions) : Directions[i] = direction

\* phaseData with every samples array empty
NoSamples == [center |-> <<>>, left |-> <<>>, right |-> <<>>, up |-> <<>>,
              down |-> <<>>]

\* the cursor positions a sample can record, in canvas coordinates
CursorPoints == { [x |-> 1000, y |-> 1000], [x |-> 4000, y |-> 9000],
                  [x |-> One, y |-> 5000] }

\* the thresholds of processCalibrationData and the scale skip installs
FullRange == 8000        \* 0.8
MaxBoost == 30000        \* 3.0
NoDataScaling == 20000   \* 2.0
SkipScalingFactor == 20000  \* 2.0

NoTimer == [stage |-> "none", direction |-> "none"]
Timer(stage, direction) == [stage |-> stage, direction |-> direction]

Min(S) == CHOOSE x \in S : \A y \in S : x <= y
Max(S) == CHOOSE x \in S : \A y \in S : x >= y

\* the axis values of a direction's samples
Values(direction, ss) ==
  { IF direction \in {"left", "right"} THEN ss[i].x ELSE ss[i].y :
      i \in 1..Len(ss) }

\* directionRanges[direction]: max - min, undefined (Null) without samples
DirectionRange(direction, ss) ==
  IF Len(ss) > 0
  THEN Some(Max(Values(direction, ss)) - Min(Values(direction, ss)))
  ELSE Null

\* mutant: the boost is the missing range, not twice the missing range
ScalingOfSingleBoost(range) ==
  IF range # Null /\ range[1] > 0
  THEN IF range[1] >= FullRange
       THEN One
       ELSE Min({One + (FullRange - range[1]), MaxBoost})
  ELSE NoDataScaling

\* scalingFactors[direction] for a range
ScalingOf(range) ==
  IF range # Null /\ range[1] > 0
  THEN IF range[1] >= FullRange
       THEN One
       ELSE Min({One + (FullRange - range[1]) * 2, MaxBoost})
  ELSE NoDataScaling

\* the object of the four scaling factors
DirectionScaling(data) ==
  [d \in {"left", "right", "up", "down"} |->
     ScalingOf(DirectionRange(d, data[d]))]

\* mutant: the average of the two horizontal scaling factors only
AvgScalingFactorHorizontal(factors) ==
  Round(factors["left"] + factors["right"], 2)

\* the average of the four scaling factors
AvgScalingFactor(factors) ==
  Round(factors["left"] + factors["right"] + factors["up"] + factors["down"],
        Len(Directions))

\* calibrationData after processCalibrationData (the statistics it keeps
\* for display only are left out)
Processed(data) ==
  [directionScaling |-> Some(DirectionScaling(data)),
   directionRanges |->
     [d \in {"left", "right", "up", "down"} |-> DirectionRange(d, data[d])],
   scalingFactor |-> Some(AvgScalingFactor(DirectionScaling(data)))]

\* mutant: the multipliers of the stored profile are not written
saveCalibrationDataScaleOnly(c) ==
  Some(JSONstringify({ <<"scalingFactor", Some(Digits(c.scalingFactor[1]))>> }))

\* HeadCalibration.saveCalibrationData: the item written for calibrationData
saveCalibrationData(c) ==
  Some(JSONstringify(
    { <<"scalingFactor", Some(Digits(c.scalingFactor[1]))>> }
    \cup { <<"directionScaling." \o d, Some(Digits(c.directionScaling[1][d]))>> :
             d \in {"left", "right", "up", "down"} }
    \cup { <<"directionRanges." \o d,
             IF c.directionRanges[d] = Null THEN Null
             ELSE Some(Digits(c.directionRanges[d][1]))>> :
             d \in {"left", "right", "up", "down"} }))

\* this.calibrationData after loadCalibrationData parsed the item
parsedCalibrationData(object) ==
  LET number(path) == IF Member(object, path) = Null THEN Null
                      ELSE Some(Value(Member(object, path)[1]))
  IN [directionScaling |->
        IF \E d \in {"left", "right", "up", "down"} :
             Member(object, "directionScaling." \o d) # Null
        THEN Some([d \in {"left", "right", "up", "down"} |->
                     IF number("directionScaling." \o d) = Null THEN 0
                     ELSE number("directionScaling." \o d)[1]])
        ELSE Null,
      directionRanges |->
        [d \in {"left", "right", "up", "down"} |->
           number("directionRanges." \o d)],
      scalingFactor |-> number("scalingFactor")]

\* calibrateDirection(direction), up to its timers
calibrateDirection(direction) ==
  /\ currentPhase' = direction
  /\ samples' = <<>>
  /\ timer' = Timer("collecting", direction)
  /\ entered' = Append(entered, direction)

\* HeadCalibration.show (F1, or no stored calibration at startup)
Show ==
  /\ overlayHidden
  /\ overlayHidden' = FALSE
  /\ UNCHANGED <<startBtnDisabled, skipBtnDisabled, isCalibrating,
                 currentPhase, phaseData, samples, timer, calibrationData,
                 storedCalibration, pageVars, entered, processed, deviceVars,
                 kalmanVars, gazeVars>>

\* mutant: the start button stays enabled
StartCalibrationAgain ==
  /\ ~overlayHidden
  /\ Len(entered) < Len(Directions) + 1
  /\ isCalibrating' = TRUE
  /\ skipBtnDisabled' = TRUE
  /\ phaseData' = NoSamples
  /\ calibrateDirection("left")
  /\ UNCHANGED <<overlayHidden, startBtnDisabled, calibrationData,
                 storedCalibration, pageVars, processed, deviceVars, kalmanVars,
                 gazeVars>>

\* a click on the start button: HeadCalibration.startCalibration
StartCalibration ==
  /\ ~overlayHidden
  /\ ~startBtnDisabled
  /\ isCalibrating' = TRUE
  /\ startBtnDisabled' = TRUE
  /\ skipBtnDisabled' = TRUE
  /\ phaseData' = NoSamples
  /\ calibrateDirection("left")
  /\ UNCHANGED <<overlayHidden, calibrationData, storedCalibration, pageVars,
                 processed, deviceVars, kalmanVars, gazeVars>>

\* mutant: skipCalibration clears the pending timer as well
skipCalibrationCancelling ==
  /\ overlayHidden' = TRUE
  /\ scalingFactor' = SkipScalingFactor
  /\ timer' = NoTimer
  /\ UNCHANGED <<startBtnDisabled, skipBtnDisabled, isCalibrating,
                 currentPhase, phaseData, samples, calibrationData,
                 storedCalibration, pageVars, entered, processed, deviceVars,
                 kalmanVars, kalmanFilterX, kalmanFilterY, smoothedOffsetX,
                 smoothedOffsetY, prevCanvasX, prevCanvasY,
                 trackerCalibration, canvas, isTimeUp, frames, seenX,
                 gazeOp>>

\* HeadCalibration.skipCalibration: hide() and setScalingFactor(2.0)
skipCalibration ==
  /\ overlayHidden' = TRUE
  /\ scalingFactor' = SkipScalingFactor
  /\ UNCHANGED <<startBtnDisabled, skipBtnDisabled, isCalibrating,
                 currentPhase, phaseData, samples, timer, calibrationData,
                 storedCalibration, pageVars, entered, processed, deviceVars,
                 kalmanVars, kalmanFilterX, kalmanFilterY, smoothedOffsetX,
                 smoothedOffsetY, prevCanvasX, prevCanvasY,
                 trackerCalibration, canvas, isTimeUp, frames, seenX,
                 gazeOp>>

\* a click on the skip button
SkipCalibration ==
  /\ ~overlayHidden
  /\ ~skipBtnDisabled
  /\ skipCalibration

\* skipCalibration() called on window.headCalibration while a run is under
\* way (the skip button is disabled then)
SkipWhileCalibrating ==
  /\ isCalibrating
  /\ skipCalibration

\* a tick of the sampling interval: the cursor position is recorded
SampleCursor ==
  /\ timer.stage = "collecting"
  /\ Len(samples) + Len(phaseData.left) + Len(phaseData.right)
       + Len(phaseData.up) + Len(phaseData.down) < MaxSamples
  /\ \E point \in CursorPoints : samples' = Append(samples, point)
  /\ UNCHANGED <<overlayHidden, startBtnDisabled, skipBtnDisabled,
                 isCalibrating, currentPhase, phaseData, timer,
                 calibrationData, storedCalibration, pageVars, entered, processed,
                 deviceVars, kalmanVars, gazeVars>>

\* the collection timeout: the samples of the direction are kept
CollectionDone ==
  /\ timer.stage = "collecting"
  /\ phaseData' = [phaseData EXCEPT ![timer.direction] = samples]
  /\ timer' = Timer("pause", timer.direction)
  /\ UNCHANGED <<overlayHidden, startBtnDisabled, skipBtnDisabled,
                 isCalibrating, currentPhase, samples, calibrationData,
                 storedCalibration, pageVars, entered, processed, deviceVars,
                 kalmanVars, gazeVars>>

\* the pause timeout: the next direction, or processCalibrationData and
\* calibrationComplete after the last one
PauseDone ==
  /\ timer.stage = "pause"
  /\ IF IndexOf(timer.direction) < Len(Directions)
     THEN /\ calibrateDirection(Directions[IndexOf(timer.direction) + 1])
          /\ UNCHANGED <<calibrationData, storedCalibration, processed,
                         scalingFactor, trackerCalibration>>
     ELSE /\ calibrationData' = Processed(phaseData)
          /\ processed' = processed + 1
          /\ scalingFactor' = calibrationData'.scalingFactor[1]
          /\ trackerCalibration' = calibrationData'.directionScaling
          /\ storedCalibration' = saveCalibrationData(calibrationData')
          /\ timer' = Timer("closing", timer.direction)
          /\ UNCHANGED <<currentPhase, samples, entered>>
  /\ UNCHANGED <<overlayHidden, startBtnDisabled, skipBtnDisabled,
                 isCalibrating, phaseData, pageVars, deviceVars, kalmanVars,
                 kalmanFilterX, kalmanFilterY, smoothedOffsetX,
                 smoothedOffsetY, prevCanvasX, prevCanvasY, canvas, isTimeUp,
                 frames, seenX, gazeOp>>

\* what localStorage can hold at page load: nothing, a text that is not
\* JSON, or what saveCalibrationData or saveCredentials wrote on an earlier
\* visit
SavedProfiles ==
  { Processed([NoSamples EXCEPT !.left = <<[x |-> 1000, y |-> 1000],
                                          [x |-> far, y |-> 1000]>>]) :
      far \in {7000, One} }
StoredCalibrations ==
  {Null, Some(NotJSON)} \cup { saveCalibrationData(c) : c \in SavedProfiles }
StoredCredentials == {Null, Some(NotJSON), saveCredentials(User)}

\* whether loadCalibrationData returns true: there is an item and it parses
LoadsCalibration == storedCalibration # Null /\ Parses(storedCalibration[1])

\* the calibration timeout of window.onload:
\* if (!headCalibration.loadCalibrationData()) headCalibration.show()
StartupTimeout ==
  /\ startupPending
  /\ startupPending' = FALSE
  /\ IF LoadsCalibration
     THEN /\ calibrationData' = parsedCalibrationData(JSONparse(storedCalibration[1]))
          /\ scalingFactor' = calibrationData'.scalingFactor[1]
          /\ trackerCalibration' = calibrationData'.directionScaling
          /\ UNCHANGED overlayHidden
     ELSE /\ overlayHidden' = FALSE
          /\ UNCHANGED <<calibrationData, scalingFactor, trackerCalibration>>
  /\ UNCHANGED <<startBtnDisabled, skipBtnDisabled, isCalibrating,
                 currentPhase, phaseData, samples, timer, storedCalibration,
                 entered, processed, storedCredentials, earlier, deviceVars,
                 kalmanVars, kalmanFilterX, kalmanFilterY, smoothedOffsetX,
                 smoothedOffsetY, prevCanvasX, prevCanvasY, canvas, isTimeUp,
                 frames, seenX, gazeOp>>

\* the timeout of calibrationComplete: the overlay is hidden
CloseOverlay ==
  /\ timer.stage = "closing"
  /\ overlayHidden' = TRUE
  /\ isCalibrating' = FALSE
  /\ timer' = NoTimer
  /\ UNCHANGED <<startBtnDisabled, skipBtnDisabled, currentPhase, phaseData,
                 samples, calibrationData, storedCalibration, pageVars, entered,
                 processed, deviceVars, kalmanVars, gazeVars>>

\* new HeadCalibration; nothing is stored yet
InitCalibration ==
  /\ startupPending = TRUE
  /\ overlayHidden = TRUE
  /\ startBtnDisabled = FALSE
  /\ skipBtnDisabled = FALSE
  /\ isCalibrating = FALSE
  /\ currentPhase = "center"
  /\ phaseData = NoSamples
  /\ samples = <<>>
  /\ timer = NoTimer
  /\ calibrationData = [directionScaling |-> Null,
                        directionRanges |->
                          [d \in {"left", "right", "up", "down"} |-> Null],
                        scalingFactor |-> Null]
  /\ entered = <<>>
  /\ processed = 0

----------------------------------------------------------------------------
(* JSON payloads *)

\* JSON.stringify of an object literal: fields holding undefined are omitted
Obj(pairs) == { p \in pairs : p[2] # Undefined }

\* an array as the object of its indices, under a path prefix
ArrayPairs(prefix, arr) ==
  { <<prefix \o ToString(i - 1), arr[i]>> : i \in 1..Len(arr) }

Payload(id, method, params) ==
  [jsonrpc |-> "2.0", id |-> id, method |-> method, params |-> params]

----------------------------------------------------------------------------
(* Headset: request and the handshake steps *)

\* Headset.request: socket.send(JSON.stringify(payload))
request(log, id, method, params) == Append(log, Payload(id, method, params))

\* Headset.addHandler: Map.set keeps one handler per id
addHandler(hs, id) == hs \cup {id}

\* Headset.subscribe: builds params but passes streams to request
subscribeRequest(log, token, session, streams) ==
  request(log, SUB_REQUEST_ID, "subscribe", ArrayPairs("", streams))

\* mutant: createSession names no headset
createSessionParamsNoHeadset(token, hid) ==
  Obj({<<"cortexToken", token>>, <<"status", "active">>})

\* Headset.createSession
createSessionParams(token, hid) ==
  Obj({<<"cortexToken", token>>, <<"headset", hid>>, <<"status", "active">>})

\* Headset.authorise
authoriseParams ==
  Obj({<<"clientId", User.clientID>>, <<"clientSecret", User.clientSecret>>})

\* Headset.controlDevice
controlDeviceParams(hid) ==
  Obj({<<"command", "connect">>, <<"headset", hid>>})

\* Headset.authenticate
authenticateParams ==
  Obj({<<"clientId", User.clientID>>, <<"clientSecret", User.clientSecret>>})

----------------------------------------------------------------------------
(* Inbound messages *)

\* data["result"]: absent, a list of headsets, or an object
NoResult == [kind |-> "absent", list |-> <<>>, cortexToken |-> Undefined,
             id |-> Undefined]
ListResult(l) == [kind |-> "list", list |-> l, cortexToken |-> Undefined,
                  id |-> Undefined]
ObjectResult(token, sid) == [kind |-> "object", list |-> <<>>,
                             cortexToken |-> token, id |-> sid]

HeadsetA == [id |-> "hsA", status |-> "connected"]
HeadsetB == [id |-> "hsB", status |-> "discovered"]
HeadsetLists == { <<>>, <<HeadsetA>>, <<HeadsetB, HeadsetA>> }
Tokens == {"tokA", "tokB"}
SessionIds == {"sesA", "sesB"}

\* the results a response with a given id carries
ResultsOf(id) ==
  {NoResult} \cup
  CASE id = QUERY_HEADSET_ID -> { ListResult(l) : l \in HeadsetLists }
    [] id = AUTHORISE_ID -> { ObjectResult(t, Undefined) : t \in Tokens }
    [] id = CREATE_SESSION_ID -> { ObjectResult(Undefined, s) : s \in SessionIds }
    [] OTHER -> { ObjectResult(Undefined, Undefined) }

\* message["com"]: absent or [name, intensity]
NoCom == <<>>
CommandNames == {"push", "pull", "lift", "neutral"}
Intensities == {0, 50, 51, 100}
Coms == { <<n, i>> : n \in CommandNames, i \in Intensities }

Message(w, e, id, result, com) ==
  [warning |-> w, error |-> e, id |-> id, result |-> result, com |-> com]

Responses ==
  UNION { { Message(FALSE, FALSE, id, r, NoCom) : r \in ResultsOf(id) } :
            id \in REQUEST_ACCESS_ID..SUB_REQUEST_ID }
CommandEvents == { Message(FALSE, FALSE, NoId, NoResult, c) : c \in Coms }
EmptyMessage == Message(FALSE, FALSE, NoId, NoResult, NoCom)

\* the same frames carrying a warning or an error field as well
Flagged(ms) ==
  { [m EXCEPT !.warning = w, !.error = e] :
      m \in ms, w \in BOOLEAN, e \in BOOLEAN }

Messages == Flagged(Responses \cup CommandEvents \cup {EmptyMessage})

----------------------------------------------------------------------------
(* MenuNavigator *)

\* MenuNavigator.menuSections: the action names of each section
MenuSections ==
  << <<"Start Drawing", "Stop Drawing", "Toggle Eraser">>,
     <<"Undo", "Redo", "Clear Canvas">>,
     <<"Red", "Green", "Black">> >>

\* document.querySelectorAll(".menu-section").length
MenuElementsLength == 3

\* mutant: a command of any other name is taken for push
CommandIndexDefaultPush(command) ==
  CASE command = "push" -> 0
    [] command = "pull" -> 1
    [] command = "lift" -> 2
    [] OTHER -> 0

\* the index handleCommand passes to selectMenu / executeAction
CommandIndex(command) ==
  CASE command = "push" -> 0
    [] command = "pull" -> 1
    [] command = "lift" -> 2
    [] OTHER -> NullMenu

\* mutant: the lower bound of the index test is off by one
selectMenuAboveZero(menu, menuIndex) ==
  IF menuIndex > 0 /\ menuIndex < MenuElementsLength THEN menuIndex ELSE menu

\* MenuNavigator.selectMenu: the menu selected by selectMenu(menuIndex)
selectMenu(menu, menuIndex) ==
  IF menuIndex >= 0 /\ menuIndex < MenuElementsLength THEN menuIndex ELSE menu

\* mutant: the action index is tested against a lower bound of one
executeActionAboveZero(menu, log, actionIndex) ==
  IF menu = NullMenu \/ menu >= Len(MenuSections)
  THEN log
  ELSE IF actionIndex > 0 /\ actionIndex < Len(MenuSections[menu + 1])
       THEN Append(log, [menu |-> menu, action |-> actionIndex,
                         name |-> MenuSections[menu + 1][actionIndex + 1]])
       ELSE log

\* MenuNavigator.executeAction: the log after executeAction(actionIndex)
executeAction(menu, log, actionIndex) ==
  IF menu = NullMenu \/ menu >= Len(MenuSections)
  THEN log
  ELSE IF actionIndex >= 0 /\ actionIndex < Len(MenuSections[menu + 1])
       THEN Append(log, [menu |-> menu, action |-> actionIndex,
                         name |-> MenuSections[menu + 1][actionIndex + 1]])
       ELSE log

\* MenuNavigator.handleCommand
handleCommand(command) ==
  IF currentMenu = NullMenu
  THEN /\ currentMenu' = (IF CommandIndex(command) # NullMenu
                          THEN selectMenu(currentMenu, CommandIndex(command))
                          ELSE currentMenu)
       /\ UNCHANGED <<executed, drawingVars>>
  ELSE /\ executed' = (IF CommandIndex(command) # NullMenu
                       THEN executeAction(currentMenu, executed,
                                          CommandIndex(command))
                       ELSE executed)
       /\ Len(executed') <= MaxExecuted
       /\ IF executed' # executed
          THEN menuAction(executed'[Len(executed')].name)
          ELSE UNCHANGED drawingVars
       /\ UNCHANGED currentMenu


----------------------------------------------------------------------------
(* HeadsetController *)

\* mutant: an intensity of exactly 0.5 passes the gate
StrictlyBelowThreshold(intensity) == intensity < IntensityThreshold

\* the gate of the command handler: intensity <= 0.5 returns
BelowThreshold(intensity) == intensity <= IntensityThreshold

\* mutant: a command exactly actionDelay after the last one is dropped
TooSoonOrJustInTime(currentTime, last) == currentTime - last <= ActionDelay

\* the debounce test: currentTime - lastActionTime < actionDelay returns
TooSoon(currentTime, last) == currentTime - last < ActionDelay

\* the branch taken by the listener, and a response dropped for want of a
\* handler
Event(outcome) == [outcome |-> outcome, id |-> NoId]
Dropped(id) == [outcome |-> "dropped", id |-> id]

\* mutant: a command dropped by the debounce restarts the window
CommandHandlerRestarting(command, intensity) ==
  IF BelowThreshold(intensity)
  THEN /\ lastEvent' = Event("gated")
       /\ UNCHANGED menuVars
  ELSE IF TooSoon(now, lastActionTime)
  THEN /\ lastEvent' = Event("debounced")
       /\ lastActionTime' = now
       /\ UNCHANGED <<currentMenu, executed, drawingVars>>
  ELSE /\ lastActionTime' = now
       /\ handleCommand(command)
       /\ lastEvent' = Event("accepted")

\* the handler HeadsetController.setupCommandHandler registers
CommandHandler(command, intensity) ==
  IF BelowThreshold(intensity)
  THEN /\ lastEvent' = Event("gated")
       /\ UNCHANGED menuVars
  ELSE IF TooSoon(now, lastActionTime)
  THEN /\ lastEvent' = Event("debounced")
       /\ UNCHANGED menuVars
  ELSE /\ lastActionTime' = now
       /\ handleCommand(command)
       /\ lastEvent' = Event("accepted")

\* mutant: the Escape keybind leaves the selection as it is
ClearSelectionKeepsMenu ==
  /\ currentMenu' = currentMenu
  /\ lastEvent' = Event("cleared")
  /\ UNCHANGED <<sessionVars, now, lastActionTime, executed, drawingVars,
                 signalVars>>

\* MenuNavigator.clearSelection, called by the Escape keybind
ClearSelection ==
  /\ currentMenu' = NullMenu
  /\ lastEvent' = Event("cleared")
  /\ UNCHANGED <<sessionVars, now, lastActionTime, executed, drawingVars,
                 signalVars>>

\* mutant: the item is returned as it is stored, without JSON.parse in a try
getCredentialsUnparsed(stored) ==
  IF stored # Null THEN Some(stored[1]) ELSE Null

\* CredentialManager.getCredentials: the parsed item, or null (Null) when
\* there is none or it does not parse
getCredentials(stored) ==
  IF stored # Null /\ Parses(stored[1]) THEN Some(JSONparse(stored[1]))
                                         ELSE Null

\* HeadsetController.initialize: without credentials it returns at once;
\* with credentials new Headset, setupCommandHandler, headset.connect (one
\* Headset session is followed)
Initialize ==
  /\ socket = Undefined
  /\ IF getCredentials(storedCredentials) = Null
     THEN /\ lastEvent' = Event("no credentials")
          /\ UNCHANGED <<commandHandler, socket>>
     ELSE /\ commandHandler' = "controller"
          /\ socket' = "connecting"
          /\ UNCHANGED lastEvent
  /\ UNCHANGED <<connected, handlers, sessionID, authToken, headsetID, sent,
                 dispatched, now, menuVars, signalVars>>

\* a click on the clear-credentials button: clearCredentials() and
\* showLoginForm()
ClearCredentials ==
  /\ storedCredentials # Null
  /\ storedCredentials' = Null
  /\ UNCHANGED <<deviceVars, kalmanVars, gazeVars, calibrationVars,
                 startupPending, earlier>>

\* the login form is submitted with both fields filled in:
\* LoginManager.handleLogin saves the credentials and calls onLoginSuccess,
\* which calls headsetController.initialize() and sets the calibration
\* timeout. initialize() constructs a new Headset and connects it; the
\* Headset it replaces keeps its socket and its listeners.
HandleLogin ==
  /\ storedCredentials = Null
  /\ earlier < MaxEarlier
  /\ storedCredentials' = saveCredentials(User)
  /\ earlier' = (IF socket = Undefined THEN earlier ELSE earlier + 1)
  /\ socket' = "connecting"
  /\ commandHandler' = "controller"
  /\ connected' = FALSE
  /\ handlers' = {}
  /\ sessionID' = Undefined
  /\ authToken' = Undefined
  /\ headsetID' = Undefined
  /\ sent' = <<>>
  /\ dispatched' = {}
  /\ startupPending' = TRUE
  /\ UNCHANGED <<lastEvent, now, menuVars, kalmanVars, gazeVars,
                 calibrationVars>>

\* a command event arrives on the socket of a Headset that was replaced:
\* its message listener calls the handler setupCommandHandler gave it
EarlierCommand ==
  /\ earlier > 0
  /\ \E com \in Coms : CommandHandler(com[1], com[2])
  /\ UNCHANGED <<sessionVars, now, signalVars>>

----------------------------------------------------------------------------
(* Headset: response handlers (the closures given to addHandler) *)

\* a handler that threw: the exception leaves the listener, nothing assigned
Raise ==
  /\ lastEvent' = Event("raised")
  /\ UNCHANGED <<socket, connected, handlers, sessionID, authToken, headsetID,
                 commandHandler, sent, dispatched>>

\* handler of REQUEST_ACCESS_ID: getCredentials()
RequestAccessHandler(m) ==
  /\ handlers' = addHandler(handlers, QUERY_HEADSET_ID)
  /\ sent' = request(sent, QUERY_HEADSET_ID, "queryHeadsets", {})
  /\ lastEvent' = Event("handled")
  /\ dispatched' = dispatched \cup {m.id}
  /\ UNCHANGED <<socket, connected, sessionID, authToken, headsetID,
                 commandHandler>>

\* mutant: the last headset of the list is taken
LastHeadset(list) == list[Len(list)]

\* the headset a non-empty query result selects: data["result"][0]
FirstHeadset(list) == list[1]

\* connected after the query handler saw headset
ConnectedAfter(headset, was) ==
  IF headset.status = "connected" THEN TRUE ELSE was

\* handler of QUERY_HEADSET_ID (registered by getCredentials)
QueryHeadsetHandler(m) ==
  IF m.result.kind = "absent"
  THEN Raise
  ELSE IF m.result.kind = "list" /\ Len(m.result.list) > 0
  THEN LET headset == FirstHeadset(m.result.list) IN
       /\ connected' = ConnectedAfter(headset, connected)
       /\ headsetID' = headset.id
       /\ handlers' = addHandler(handlers, CONTROL_DEVICE_ID)
       /\ sent' = request(sent, CONTROL_DEVICE_ID, "controlDevice",
                          controlDeviceParams(headsetID'))
       /\ lastEvent' = Event("handled")
       /\ dispatched' = dispatched \cup {m.id}
       /\ UNCHANGED <<socket, sessionID, authToken, commandHandler>>
  ELSE /\ connected' = FALSE
       /\ lastEvent' = Event("handled")
       /\ dispatched' = dispatched \cup {m.id}
       /\ UNCHANGED <<socket, handlers, sessionID, authToken, headsetID,
                      commandHandler, sent>>

\* mutant: the controlDevice handler does not go on to authorise()
ControlDeviceHandlerSilent(m) ==
  /\ lastEvent' = Event("handled")
  /\ dispatched' = dispatched \cup {m.id}
  /\ UNCHANGED <<socket, connected, handlers, sessionID, authToken,
                 headsetID, commandHandler, sent>>

\* handler of CONTROL_DEVICE_ID: authorise()
ControlDeviceHandler(m) ==
  /\ handlers' = addHandler(handlers, AUTHORISE_ID)
  /\ sent' = request(sent, AUTHORISE_ID, "authorize", authoriseParams)
  /\ lastEvent' = Event("handled")
  /\ dispatched' = dispatched \cup {m.id}
  /\ UNCHANGED <<socket, connected, sessionID, authToken, headsetID,
                 commandHandler>>

\* handler of AUTHORISE_ID: authToken, then createSession()
AuthoriseHandler(m) ==
  IF m.result.kind = "absent"
  THEN Raise
  ELSE /\ authToken' = m.result.cortexToken
       /\ handlers' = addHandler(handlers, CREATE_SESSION_ID)
       /\ sent' = request(sent, CREATE_SESSION_ID, "createSession",
                          createSessionParams(authToken', headsetID))
       /\ lastEvent' = Event("handled")
       /\ dispatched' = dispatched \cup {m.id}
       /\ UNCHANGED <<socket, connected, sessionID, headsetID, commandHandler>>

\* handler of CREATE_SESSION_ID: sessionID, then subscribe(streams)
CreateSessionHandler(m) ==
  IF m.result.kind = "absent"
  THEN Raise
  ELSE /\ sessionID' = m.result.id
       /\ sent' = subscribeRequest(sent, authToken, sessionID', Streams)
       /\ lastEvent' = Event("handled")
       /\ dispatched' = dispatched \cup {m.id}
       /\ UNCHANGED <<socket, connected, handlers, authToken, headsetID,
                      commandHandler>>

\* handler(message) for the handler registered under id
Handler(id, m) ==
  CASE id = REQUEST_ACCESS_ID -> RequestAccessHandler(m)
    [] id = QUERY_HEADSET_ID -> QueryHeadsetHandler(m)
    [] id = CONTROL_DEVICE_ID -> ControlDeviceHandler(m)
    [] id = AUTHORISE_ID -> AuthoriseHandler(m)
    [] id = CREATE_SESSION_ID -> CreateSessionHandler(m)

\* mutant: the createSession handler answers before it was registered
HasHandlerEarly(hs, id) == id \in hs \/ id = CREATE_SESSION_ID

\* this.handlers.has(message_id)
HasHandler(hs, id) == id \in hs

\* message.warning is truthy
IsWarning(m) == m.warning

\* mutant: the error branch of the triage is missing
IsErrorNever(m) == FALSE

\* message.error is truthy
IsError(m) == m.error

----------------------------------------------------------------------------
(* Headset.connect: the message listener and the open listener *)

OnMessage(m) ==
  IF IsWarning(m)
  THEN /\ lastEvent' = Event("warning")
       /\ UNCHANGED <<sessionVars, menuVars>>
  ELSE IF IsError(m)
  THEN /\ lastEvent' = Event("error")
       /\ UNCHANGED <<sessionVars, menuVars>>
  ELSE IF m.id = NoId
  THEN /\ UNCHANGED sessionVars
       /\ IF commandHandler # Undefined
          THEN IF m.com = NoCom
               THEN /\ lastEvent' = Event("raised")
                    /\ UNCHANGED menuVars
               ELSE CommandHandler(m.com[1], m.com[2])
          ELSE /\ lastEvent' = Event("ignored")
               /\ UNCHANGED menuVars
  ELSE IF HasHandler(handlers, m.id)
  THEN /\ Handler(m.id, m)
       /\ Len(sent') <= MaxSent
       /\ UNCHANGED menuVars
  ELSE /\ lastEvent' = Dropped(m.id)
       /\ UNCHANGED <<sessionVars, menuVars>>

\* a message event on the open socket, the frame drawn from ms
ReceiveFrom(ms) ==
  /\ socket = "open"
  /\ \E m \in ms : OnMessage(m)
  /\ UNCHANGED <<now, signalVars>>

\* any frame
Receive == ReceiveFrom(Messages)

\* a frame without id: a command event or an empty frame
ReceiveCommand == ReceiveFrom(Flagged(CommandEvents \cup {EmptyMessage}))

\* mutant: the open listener does not wait for the requestAccess response
OpenWithoutWaiting ==
  /\ socket = "connecting"
  /\ socket' = "open"
  /\ handlers' = addHandler(addHandler(handlers, REQUEST_ACCESS_ID),
                            QUERY_HEADSET_ID)
  /\ sent' = request(request(sent, REQUEST_ACCESS_ID, "requestAccess",
                             authenticateParams),
                     QUERY_HEADSET_ID, "queryHeadsets", {})
  /\ UNCHANGED <<connected, sessionID, authToken, headsetID, commandHandler,
                 dispatched, lastEvent, now, menuVars, signalVars>>

\* the open event: authenticate()
Open ==
  /\ socket = "connecting"
  /\ socket' = "open"
  /\ handlers' = addHandler(handlers, REQUEST_ACCESS_ID)
  /\ sent' = request(sent, REQUEST_ACCESS_ID, "requestAccess",
                     authenticateParams)
  /\ UNCHANGED <<connected, sessionID, authToken, headsetID, commandHandler,
                 dispatched, lastEvent, now, menuVars, signalVars>>

\* how often a request with this id was sent
SentCount(id) == Cardinality({ i \in 1..Len(sent) : sent[i].id = id })

\* the success responses to a request: a result, and for queryHeadsets a
\* list with at least one headset
SuccessResponses(id) ==
  { m \in Responses :
      m.id = id /\ m.result.kind # "absent" /\ m.result # ListResult(<<>>) }

\* the service answers a request that was sent and not answered yet
Answer(id) ==
  /\ SentCount(id) > 0
  /\ id \notin dispatched
  /\ ReceiveFrom(SuccessResponses(id))

\* a warning, an error or a command event arrives in between
Interleaved ==
  ReceiveFrom({ m \in Messages : m.warning \/ m.error } \cup CommandEvents)

\* time passes
Tick ==
  /\ now + TickMs <= PageLoadTime + MaxElapsed
  /\ now' = now + TickMs
  /\ UNCHANGED <<sessionVars, lastEvent, menuVars, signalVars>>

----------------------------------------------------------------------------

InitDevice ==
  /\ socket = Undefined
  /\ connected = FALSE
  /\ handlers = {}
  /\ sessionID = Undefined
  /\ authToken = Undefined
  /\ headsetID = Undefined
  /\ commandHandler = Undefined
  /\ sent = <<>>
  /\ dispatched = {}
  /\ lastEvent = Event("none")
  /\ now = PageLoadTime
  /\ lastActionTime = 0
  /\ currentMenu = NullMenu
  /\ executed = <<>>
  /\ earlier = 0
  /\ InitDrawing

\* localStorage at page load
InitStorage(credentials, calibration) ==
  /\ storedCredentials = credentials
  /\ storedCalibration = calibration

\* the page after load: the device objects and the FaceTracker's filters,
\* the credentials saved by an earlier login and no calibration stored
Init ==
  /\ InitDevice
  /\ InitKalman(DefaultProcessNoise, DefaultMeasurementNoise)
  /\ InitTracker
  /\ InitCalibration
  /\ InitStorage(saveCredentials(User), Null)

\* The device session with every inbound frame. The handshake never reads
\* the clock, which stands still here.
Next ==
  \/ Initialize
  \/ Open
  \/ Receive
  \/ ClearSelection

Spec == Init /\ [][Next]_vars

\* The command path under a running clock: the device sends command events
\* only, which never touch the session.
NextCommand ==
  \/ Initialize
  \/ Open
  \/ ReceiveCommand
  \/ Tick
  \/ ClearSelection

SpecCommand == Init /\ [][NextCommand]_vars

\* a second passes
Wait ==
  /\ now + ActionDelay <= PageLoadTime + MaxElapsed
  /\ now' = now + ActionDelay
  /\ UNCHANGED <<sessionVars, lastEvent, menuVars, signalVars>>

\* Logging out and in again on the page, with the command events of every
\* Headset constructed and the clock.
NextLogin ==
  \/ Initialize
  \/ Open
  \/ ReceiveCommand
  \/ ClearCredentials
  \/ HandleLogin
  \/ EarlierCommand
  \/ Wait

SpecLogin == Init /\ [][NextLogin]_vars

\* The history of the canvas under its keys alone, the countdown running
\* out and dismissed.
NextKeys ==
  \/ KeydownHistory
  \/ ShowPensAway
  \/ HidePensAway

SpecKeys == Init /\ [][NextKeys]_vars

\* The drawing canvas under its keys, with the gaze samples that paint on it
\* and the window resized; the snapshots kept and the strokes painted are
\* bounded.
NextDrawing ==
  \/ KeydownHistory /\ Len(undoStack') + Len(redoStack') <= MaxHistory
  \/ Glance /\ frames' <= MaxStrokes
  \/ ResizeCanvas

SpecDrawing == Init /\ [][NextDrawing]_vars

\* The countdown against everything that acts on the canvas: the menu
\* commands of the device, the gaze samples, and the keys pressed while the
\* time is up.
NextInterlock ==
  \/ Initialize
  \/ Open
  \/ ReceiveCommand
  \/ Wait
  \/ ShowPensAway
  \/ HidePensAway
  \/ Glance /\ frames' <= MaxStrokes
  \/ isTimeUp /\ Keydown

SpecInterlock == Init /\ [][NextInterlock]_vars

\* One KalmanFilter, constructed with any of the noise parameters, under
\* any sequence of update and reset calls.
InitFilter ==
  /\ InitDevice
  /\ \E q \in ProcessNoises, r \in MeasurementNoises : InitKalman(q, r)
  /\ InitTracker
  /\ InitCalibration
  /\ InitStorage(saveCredentials(User), Null)

NextKalman ==
  \/ KalmanUpdate
  \/ KalmanReset

SpecKalman == InitFilter /\ [][NextKalman]_vars

\* The FaceTracker under any sequence of frames, filter resets, window
\* resizes and countdown expiries.
NextGaze ==
  \/ OnResults
  \/ ResetFilters
  \/ ResizeCanvas
  \/ ShowPensAway
  \/ HidePensAway

SpecGaze == Init /\ [][NextGaze]_vars

\* The calibration overlay: shown, started or skipped by the user, and
\* driven through the directions by its timers.
NextCalibration ==
  \/ Show
  \/ StartCalibration
  \/ SkipCalibration
  \/ SampleCursor
  \/ CollectionDone
  \/ PauseDone
  \/ CloseOverlay

SpecCalibration == Init /\ [][NextCalibration]_vars

\* The calibration with skipCalibration() also called during a run. The
\* timers are setTimeout callbacks, which the event loop runs once they are
\* due: a collection or pause timeout that is pending fires.
NextSkip ==
  \/ NextCalibration
  \/ SkipWhileCalibrating

SpecSkip ==
  /\ Init
  /\ [][NextSkip]_vars
  /\ WF_vars(CollectionDone)
  /\ WF_vars(PauseDone)

\* the page is loaded again: every object is constructed anew, localStorage
\* keeps its items
Reload ==
  /\ socket' = Undefined
  /\ connected' = FALSE
  /\ handlers' = {}
  /\ sessionID' = Undefined
  /\ authToken' = Undefined
  /\ headsetID' = Undefined
  /\ commandHandler' = Undefined
  /\ sent' = <<>>
  /\ dispatched' = {}
  /\ lastEvent' = Event("none")
  /\ lastActionTime' = 0
  /\ currentMenu' = NullMenu
  /\ executed' = <<>>
  /\ earlier' = 0
  /\ isDrawing' = FALSE
  /\ isErasing' = FALSE
  /\ currentColor' = COLOR_BLACK
  /\ undoStack' = <<>>
  /\ redoStack' = <<>>
  /\ content' = <<>>
  /\ filter' = NewKalmanFilter(DefaultProcessNoise, DefaultMeasurementNoise,
                               DefaultInitialState)
  /\ twin' = filter'
  /\ fed' = 0
  /\ filterOp' = "new"
  /\ kalmanFilterX' = filter'
  /\ kalmanFilterY' = filter'
  /\ smoothedOffsetX' = 0
  /\ smoothedOffsetY' = 0
  /\ prevCanvasX' = Null
  /\ prevCanvasY' = Null
  /\ scalingFactor' = DefaultScalingFactor
  /\ trackerCalibration' = Null
  /\ canvas' = LoadedCanvas
  /\ isTimeUp' = FALSE
  /\ frames' = 0
  /\ seenX' = {}
  /\ gazeOp' = "new"
  /\ startupPending' = TRUE
  /\ overlayHidden' = TRUE
  /\ startBtnDisabled' = FALSE
  /\ skipBtnDisabled' = FALSE
  /\ isCalibrating' = FALSE
  /\ currentPhase' = "center"
  /\ phaseData' = NoSamples
  /\ samples' = <<>>
  /\ timer' = NoTimer
  /\ calibrationData' = [directionScaling |-> Null,
                         directionRanges |->
                           [d \in {"left", "right", "up", "down"} |-> Null],
                         scalingFactor |-> Null]
  /\ entered' = <<>>
  /\ processed' = 0
  /\ UNCHANGED <<now, storedCredentials, storedCalibration>>

\* Visits of the page one after the other: the calibration timeout of each
\* visit, the run started from the overlay it shows, and the reload.
NextReload ==
  \/ StartupTimeout
  \/ StartCalibration
  \/ SampleCursor
  \/ CollectionDone
  \/ PauseDone
  \/ CloseOverlay
  \/ Reload

SpecReload == Init /\ [][NextReload]_vars

\* The page opened on any localStorage: the login check, the calibration
\* timeout, the overlay shown by F1 and skipped, and the frames.
InitStartup ==
  /\ InitDevice
  /\ InitKalman(DefaultProcessNoise, DefaultMeasurementNoise)
  /\ InitTracker
  /\ InitCalibration
  /\ \E credentials \in StoredCredentials, calibration \in StoredCalibrations :
       InitStorage(credentials, calibration)

NextStartup ==
  \/ Initialize
  \/ StartupTimeout
  \/ Show
  \/ SkipCalibration
  \/ OnResults

SpecStartup == InitStartup /\ [][NextStartup]_vars

\* The overall scale under the sensitivity keys, the profile loaded at
\* startup, a calibration run and the skip button.
NextSensitivity ==
  \/ IncreaseSensitivity
  \/ DecreaseSensitivity
  \/ StartupTimeout
  \/ Show
  \/ SkipCalibration
  \/ StartCalibration
  \/ SampleCursor
  \/ CollectionDone
  \/ PauseDone
  \/ CloseOverlay

\* the page after load, with any calibration item in localStorage
InitSensitivity ==
  /\ InitDevice
  /\ InitKalman(DefaultProcessNoise, DefaultMeasurementNoise)
  /\ InitTracker
  /\ InitCalibration
  /\ \E calibration \in StoredCalibrations :
       InitStorage(saveCredentials(User), calibration)

SpecSensitivity == InitSensitivity /\ [][NextSensitivity]_vars

\* The handshake against a service that answers: every request sent is
\* answered by one success response, with warnings, errors and command
\* events in between. The socket delivers every frame the service sends, so
\* an answer that is due is not put off for ever.
NextProgress ==
  \/ Initialize
  \/ Open
  \/ \E id \in REQUEST_ACCESS_ID..CREATE_SESSION_ID : Answer(id)
  \/ Interleaved

SpecProgress ==
  /\ Init
  /\ [][NextProgress]_vars
  /\ \A id \in REQUEST_ACCESS_ID..CREATE_SESSION_ID : WF_vars(Answer(id))

----------------------------------------------------------------------------
(* Observations on the request log *)

\* the ids of the requests sent, in order
SentIds == [ i \in 1..Len(sent) |-> sent[i].id ]

\* the frames with a warning or an error field
FlaggedMessages == { m \in Messages : m.warning \/ m.error }

----------------------------------------------------------------------------
(* C1: handshake ordering *)

\* the request log is ordered: requestAccess comes first and only first, and
\* a request with id n > 1 has the request with id n - 1 before it and a
\* response with id n - 1 dispatched to its handler
OrderedLog ==
  \A k \in 1..Len(sent) :
    LET n == sent[k].id IN
    /\ n \in REQUEST_ACCESS_ID..SUB_REQUEST_ID
    /\ (k = 1) <=> (n = REQUEST_ACCESS_ID)
    /\ n > REQUEST_ACCESS_ID =>
         /\ (n - 1) \in dispatched
         /\ \E j \in 1..(k - 1) : sent[j].id = n - 1

\* a step sends at most one request: requestAccess when the socket opens,
\* any other id n in the very step that dispatches a response with id n - 1
\* to the handler registered for it
SendsInTurn ==
  \/ sent' = sent
  \/ /\ Len(sent') = Len(sent) + 1
     /\ SubSeq(sent', 1, Len(sent)) = sent
     /\ LET n == sent'[Len(sent')].id IN
        IF n = REQUEST_ACCESS_ID
        THEN socket = "connecting" /\ socket' = "open"
        ELSE /\ (n - 1) \in handlers
             /\ (n - 1) \in dispatched'
             /\ \E m \in Responses :
                  m.id = n - 1 /\ socket = "open" /\ OnMessage(m)

----------------------------------------------------------------------------
(* C2: a response without a registered handler is dropped *)

\* nothing of the createSession step happens before the authorize response
\* was handled
NotPastAuthorize ==
  AUTHORISE_ID \notin dispatched =>
    /\ sessionID = Undefined
    /\ SentCount(CREATE_SESSION_ID) = 0
    /\ SentCount(SUB_REQUEST_ID) = 0

\* a response whose id has no handler in the Map changes nothing and raises
\* nothing
DroppedWithoutEffect ==
  \/ /\ UNCHANGED <<sessionVars, menuVars>>
     /\ lastEvent'.outcome # "raised"
  \/ \A m \in Responses :
       ~(socket = "open" /\ m.id \notin handlers /\ OnMessage(m))

\* C2: a response whose id has no registered handler is dropped without a
\* crash and without effect; in particular a createSession response (id 5)
\* that arrives before the authorize response (id 4) was handled leaves
\* sessionID undefined and sends no subscribe, and createSession is sent
\* only once the id-4 response itself was handled.
C2_UnregisteredResponseDropped ==
  [](NotPastAuthorize) /\ [][DroppedWithoutEffect]_vars

\* the createSession response was dropped while the authorize request was
\* still waiting for its response
C2_Witness ==
  /\ lastEvent = Dropped(CREATE_SESSION_ID)
  /\ AUTHORISE_ID \in handlers
  /\ AUTHORISE_ID \notin dispatched
  /\ sessionID = Undefined

----------------------------------------------------------------------------
(* C3: one-shot handlers *)

\* C3: the handler registered for a request id is consumed when its response
\* is dispatched, so a response whose id was already dispatched runs no
\* handler again: it registers no handler, sends no request and overwrites
\* none of authToken, sessionID, headsetID and connected.
C3_HandlersAreOneShot ==
  [][\/ UNCHANGED <<handlers, sent, authToken, sessionID, headsetID,
                    connected>>
     \/ \A m \in Responses :
          ~(socket = "open" /\ m.id \in dispatched /\ OnMessage(m))]_vars

----------------------------------------------------------------------------
(* C4: device-not-found is terminal *)

\* the query handler has run, and only ever on an empty list
DiscoveryFailed ==
  /\ QUERY_HEADSET_ID \in dispatched
  /\ SentCount(CONTROL_DEVICE_ID) = 0

\* C4: after a queryHeadsets response with an empty list, connected is
\* false and headsetID undefined, and from then on no request is sent:
\* neither controlDevice, authorize, createSession or subscribe, nor
\* queryHeadsets again.
C4_DeviceNotFoundIsTerminal ==
  [](DiscoveryFailed => ~connected /\ headsetID = Undefined)
  /\ [][DiscoveryFailed => DiscoveryFailed' /\ sent' = sent]_vars

----------------------------------------------------------------------------
(* C5: a non-empty device list *)

\* the queryHeadsets responses with a non-empty list
QueryFound ==
  { m \in Responses : m.id = QUERY_HEADSET_ID /\ m.result.kind = "list"
                      /\ Len(m.result.list) > 0 }

\* the controlDevice request for a headset id
ConnectRequest(hid) ==
  [jsonrpc |-> "2.0", id |-> CONTROL_DEVICE_ID, method |-> "controlDevice",
   params |-> {<<"command", "connect">>, <<"headset", hid>>}]

\* C5 as stated: after a queryHeadsets response with a non-empty list, the
\* id of the first device is remembered, connected is true, and
\* controlDevice(connect) is sent for that device.
C5_FoundSetsConnected ==
  [][\A m \in QueryFound :
       (socket = "open" /\ QUERY_HEADSET_ID \in handlers /\ OnMessage(m)) =>
         /\ headsetID' = m.result.list[1].id
         /\ connected' = TRUE
         /\ sent' = Append(sent, ConnectRequest(m.result.list[1].id))]_vars

\* C5 amended: after a queryHeadsets response with a non-empty list, the id
\* of the first device is remembered and controlDevice(connect) is sent for
\* that device; connected becomes true when the first device reports the
\* status "connected" and keeps its value otherwise.
C5_FoundRemembersFirstDevice ==
  [][\A m \in QueryFound :
       (socket = "open" /\ QUERY_HEADSET_ID \in handlers /\ OnMessage(m)) =>
         /\ headsetID' = m.result.list[1].id
         /\ connected' = (connected \/ m.result.list[1].status = "connected")
         /\ sent' = Append(sent, ConnectRequest(m.result.list[1].id))]_vars

\* a list whose first device is not connected was handled: its id is
\* remembered, controlDevice was sent for it, and connected is still false
C5_Witness ==
  /\ lastEvent.outcome = "handled"
  /\ headsetID = "hsB"
  /\ ~connected
  /\ sent # <<>>
  /\ sent[Len(sent)] = ConnectRequest("hsB")

----------------------------------------------------------------------------
(* C7: the handshake stalls without a response *)

\* C7: as long as no response of step N (1 <= N <= 5) was dispatched to its
\* handler, no request with an id greater than N is sent, the request of
\* step N is sent at most once (no retry), and its handler stays pending.
C7_StallsWithoutRetry ==
  \A n \in REQUEST_ACCESS_ID..CREATE_SESSION_ID :
    n \notin dispatched =>
      /\ \A k \in (n + 1)..SUB_REQUEST_ID : SentCount(k) = 0
      /\ SentCount(n) <= 1
      /\ SentCount(n) = 1 => n \in handlers

----------------------------------------------------------------------------
(* C6: a frame with a warning field or an error field changes no state *)

\* C6: for every inbound frame that carries a warning or an error field,
\* whatever id, result or com payload it also carries, the listener leaves
\* the handlers, connected, headsetID, authToken, sessionID, the socket and
\* the command handler as they are, sends no request, invokes no response
\* handler (dispatched) and no command listener (the last-action time, the
\* menu selection and the executed actions are unchanged).
C6_FlaggedFrameChangesNothing ==
  [][\/ UNCHANGED <<socket, connected, handlers, sessionID, authToken,
                    headsetID, commandHandler, sent, dispatched,
                    lastActionTime, currentMenu, executed>>
      \/ \A m \in FlaggedMessages : ~(socket = "open" /\ OnMessage(m))]_vars

\* an error or warning frame arrived while handlers were pending and a menu
\* section was selected
C6_Witness ==
  /\ lastEvent.outcome \in {"warning", "error"}
  /\ socket = "open"
  /\ handlers # {}
  /\ currentMenu # NullMenu

----------------------------------------------------------------------------
(* C8: the intensity gate *)

\* C8: a command event without id is delivered onward only if its intensity
\* exceeds 0.5: an event with intensity <= 0.5, exactly 0.5 included, leaves
\* the menu selection, the executed actions and the last-action time
\* unchanged.
C8_IntensityGate ==
  [][\/ UNCHANGED <<currentMenu, executed, lastActionTime>>
     \/ \A m \in CommandEvents :
          ~(socket = "open" /\ m.com[2] <= 50 /\ OnMessage(m))]_vars

\* an event at or below the threshold was dropped although no command had
\* been accepted before it
C8_Witness ==
  /\ lastEvent.outcome = "gated"
  /\ lastActionTime = 0
  /\ currentMenu = NullMenu

----------------------------------------------------------------------------
(* C9: the debounce window *)

\* C9: a command with intensity > 0.5, whatever its name, is accepted if and
\* only if at least 1000 ms have passed since the last accepted command:
\* then it becomes the last accepted command; otherwise (400 ms after it,
\* say) it is dropped and changes nothing. The last-action time changes
\* only when a command is accepted.
C9_Debounce ==
  [][/\ \A m \in CommandEvents :
          (socket = "open" /\ m.com[2] > 50 /\ OnMessage(m)) =>
            IF now - lastActionTime >= 1000
            THEN lastActionTime' = now /\ lastEvent'.outcome = "accepted"
            ELSE /\ UNCHANGED <<currentMenu, executed, lastActionTime>>
                 /\ lastEvent'.outcome = "debounced"
     /\ lastActionTime' # lastActionTime =>
          lastActionTime' = now /\ lastEvent'.outcome = "accepted"]_vars

\* a command was dropped 400 ms after the last accepted one
C9_Witness ==
  /\ lastEvent.outcome = "debounced"
  /\ now - lastActionTime = 400

----------------------------------------------------------------------------
(* C10: selecting a menu section *)

\* C10: with no section selected, an accepted command push, pull or lift
\* selects section 0, 1 or 2 respectively, and executes no action.
C10_SelectsSection ==
  [][\A m \in CommandEvents :
       (/\ socket = "open"
        /\ m.com[2] > 50
        /\ now - lastActionTime >= 1000
        /\ currentMenu = NullMenu
        /\ OnMessage(m)) =>
         /\ executed' = executed
         /\ m.com[1] = "push" => currentMenu' = 0
         /\ m.com[1] = "pull" => currentMenu' = 1
         /\ m.com[1] = "lift" => currentMenu' = 2]_vars

\* lift was accepted with no section selected: section 2 is selected and no
\* action has been executed
C10_Witness ==
  /\ lastEvent.outcome = "accepted"
  /\ lastActionTime = now
  /\ currentMenu = 2
  /\ executed = <<>>

----------------------------------------------------------------------------
(* C11: executing an action of the selected section *)

\* the command events the controller accepts in the current state
Accepted(m) ==
  /\ socket = "open"
  /\ commandHandler # Undefined
  /\ m.com[2] > 50
  /\ now - lastActionTime >= 1000

\* the log entry of action a of section i
Entry(i, a) == [menu |-> i, action |-> a, name |-> MenuSections[i + 1][a + 1]]

\* C11: with section i selected (i in 0..2), an accepted command push, pull
\* or lift executes exactly action 0, 1 or 2 of section i, once, and section
\* i stays selected, so that the action can be repeated without selecting
\* again; any other accepted command executes nothing.
C11_ExecutesAndStays ==
  [][\A m \in CommandEvents :
       (Accepted(m) /\ currentMenu # NullMenu /\ OnMessage(m)) =>
         /\ currentMenu \in 0..2
         /\ currentMenu' = currentMenu
         /\ m.com[1] = "push" => executed' = Append(executed, Entry(currentMenu, 0))
         /\ m.com[1] = "pull" => executed' = Append(executed, Entry(currentMenu, 1))
         /\ m.com[1] = "lift" => executed' = Append(executed, Entry(currentMenu, 2))
         /\ m.com[1] \notin {"push", "pull", "lift"} => executed' = executed]_vars

\* pull selected section 1, then lift was accepted twice: action 2 of
\* section 1 ran twice and section 1 is still selected
C11_Witness ==
  /\ lastEvent.outcome = "accepted"
  /\ currentMenu = 1
  /\ executed = << Entry(1, 2), Entry(1, 2) >>

----------------------------------------------------------------------------
(* C12: the external clear signal *)

\* the next accepted command after the clear selects and executes nothing
SelectsAfterClear ==
  \A m \in CommandEvents :
    (lastEvent.outcome = "cleared" /\ Accepted(m) /\ OnMessage(m)) =>
      /\ executed' = executed
      /\ m.com[1] = "push" => currentMenu' = 0
      /\ m.com[1] = "pull" => currentMenu' = 1
      /\ m.com[1] = "lift" => currentMenu' = 2

\* C12: the Escape keybind (clearSelection) forces NoSelection from every
\* menu state, executes no action and does not count as a command, and the
\* next accepted command selects a section instead of executing an action.
C12_ClearForcesNoSelection ==
  /\ [](lastEvent.outcome = "cleared" => currentMenu = NullMenu)
  /\ [][lastEvent'.outcome = "cleared" =>
          executed' = executed /\ lastActionTime' = lastActionTime]_vars
  /\ [][SelectsAfterClear]_vars

\* the selection was cleared after an action of a selected section had run
C12_Witness ==
  /\ lastEvent.outcome = "cleared"
  /\ currentMenu = NullMenu
  /\ executed # <<>>

----------------------------------------------------------------------------
(* C15: the uncertainty is never negative *)

\* C15: for every sequence of update(measurement) and reset() calls on a
\* KalmanFilter with processNoise >= 0 and measurementNoise > 0, the
\* uncertainty is >= 0 in every reachable state.
C15_UncertaintyNonNegative ==
  (filter.processNoise >= 0 /\ filter.measurementNoise > 0) =>
    filter.uncertainty >= 0

\* a filter with process noise has been updated several times
C15_Witness ==
  /\ filter.processNoise > 0
  /\ fed >= 3
  /\ filterOp = "update"
  /\ filter.uncertainty < One
  /\ filter.state # 0

----------------------------------------------------------------------------
(* C16: without process noise the uncertainty never grows *)

\* C16: for every sequence of measurements fed to a KalmanFilter with
\* processNoise = 0 and measurementNoise > 0, the uncertainty after each
\* update is less than or equal to the uncertainty before it.
C16_UncertaintyNonIncreasing ==
  [][(filter.processNoise = 0 /\ filter.measurementNoise > 0
      /\ fed' = fed + 1) =>
       filter'.uncertainty <= filter.uncertainty]_vars

\* a filter without process noise was updated twice and its uncertainty
\* has fallen
C16_Witness ==
  /\ filter.processNoise = 0
  /\ fed >= 2
  /\ filterOp = "update"
  /\ filter.uncertainty < One \div 2

----------------------------------------------------------------------------
(* C17: reset() restores the initial state *)

----------------------------------------------------------------------------
(* C13: the step clamp *)

\* half the width of the canvas, and 6% of a dimension of it
HalfWidth == (canvas.width * Scale) \div 2
SixPercent(pixels) == (6 * pixels * Scale) \div 100

\* C13: for every sequence of processed samples and every two consecutive
\* samples, the screen point moves by at most 0.06 W in x and 0.06 H in y,
\* W x H being the size of the canvas when the later sample is processed;
\* the first sample, which has no previous point, is the only one without
\* a bound.
C13_StepClamp ==
  /\ [](frames > 0 => prevCanvasX # Null /\ prevCanvasY # Null)
  /\ [][(frames' = frames + 1 /\ frames > 0) =>
          /\ Abs(prevCanvasX'[1] - prevCanvasX[1]) <= SixPercent(canvas.width)
          /\ Abs(prevCanvasY'[1] - prevCanvasY[1]) <= SixPercent(canvas.height)
       ]_vars

\* a later sample was held back by the clamp in x: the point drawn is not
\* the point the smoothed offset maps to
C13_Witness ==
  /\ frames >= 2
  /\ gazeOp = "sample"
  /\ prevCanvasX[1] # HalfWidth - smoothedOffsetX * canvas.width

----------------------------------------------------------------------------
(* C14: what a filter reset resets *)

\* C14: the smoothing state is reset by an explicit filter reset and by
\* nothing else: after resetFilters() the smoothed offsets are 0 and the
\* previous screen point is null (so the next sample is not step-clamped),
\* and no other operation resets them.
C14_ResetClearsSmoothing ==
  /\ [](gazeOp = "reset" =>
          /\ smoothedOffsetX = 0 /\ smoothedOffsetY = 0
          /\ prevCanvasX = Null /\ prevCanvasY = Null)
  /\ [][(prevCanvasX # Null /\ prevCanvasX' = Null) => gazeOp' = "reset"]_vars

----------------------------------------------------------------------------
(* C18: mirroring *)

\* C18: starting from the initial state of the tracker, every sample of a
\* run of samples with raw eye-x 0.0 maps to the right half of the canvas
\* (screenX > W/2), and the raw eye-y of a sample has no influence on its
\* screenX.
C18_Mirroring ==
  /\ [][(frames' = frames + 1 /\ seenX' = {0}) =>
          prevCanvasX'[1] > HalfWidth]_vars
  /\ [](\A f, g \in Faces :
          RawEyeX(f) = RawEyeX(g) => Sample(f).canvasX = Sample(g).canvasX)

\* three samples with raw eye-x 0.0 and differing eye-y have been mapped
C18_Witness ==
  /\ frames = 3
  /\ seenX = {0}
  /\ gazeOp = "sample"
  /\ kalmanFilterY.state > One \div 2
  /\ prevCanvasX[1] > HalfWidth

----------------------------------------------------------------------------
(* C19: the calibration runs through the directions once, in order *)

\* C19: the calibration is a linear sequence. Before start nothing is
\* calibrated (no direction entered, isCalibrating false, no profile
\* computed); after start the directions are entered one at a time, in the
\* order left, right, up, down, each once, the current phase being the
\* direction entered last; the profile is computed once, after all four.
C19_LinearSequence ==
  /\ [](/\ Len(entered) <= Len(Directions)
        /\ entered = SubSeq(Directions, 1, Len(entered)))
  /\ [](~startBtnDisabled =>
          entered = <<>> /\ ~isCalibrating /\ processed = 0)
  /\ [](processed <= 1 /\ (processed = 1 => entered = Directions))
  /\ [][entered' # entered =>
          /\ Len(entered') = Len(entered) + 1
          /\ currentPhase' = entered'[Len(entered')]
          /\ isCalibrating' /\ processed' = 0]_vars

\* a run has gone through the four directions with samples, computed its
\* profile and closed the overlay
C19_Witness ==
  /\ entered = Directions
  /\ processed = 1
  /\ currentPhase = "down"
  /\ timer = NoTimer
  /\ ~isCalibrating
  /\ Len(phaseData.left) > 0 /\ Len(phaseData.down) > 0

----------------------------------------------------------------------------
(* C20: the multiplier of a direction *)

\* the range observed for a direction: max - min of its axis values
ObservedRange(d) == Max(Values(d, phaseData[d])) - Min(Values(d, phaseData[d]))

\* the multiplier the computed profile gives a direction
Multiplier(d) == calibrationData.directionScaling[1][d]

\* 1.0 for a range of at least 0.8, min(1 + (0.8 - r) * 2, 3.0) below
Boost(r) ==
  IF r >= 8000 THEN 10000
  ELSE IF 10000 + (8000 - r) * 2 < 30000 THEN 10000 + (8000 - r) * 2
  ELSE 30000

\* C20 as stated: on completion, for each direction independently and for
\* every observed range r in [0, 1], the multiplier is 1.0 when r >= 0.8
\* and min(1 + (0.8 - r) * 2, 3.0) otherwise.
C20_MultiplierFormula ==
  processed > 0 =>
    \A d \in {"left", "right", "up", "down"} :
      Len(phaseData[d]) > 0 => Multiplier(d) = Boost(ObservedRange(d))

\* C20 amended: on completion, for each direction independently, the
\* multiplier is 1.0 when the observed range r is at least 0.8,
\* min(1 + (0.8 - r) * 2, 3.0) when 0 < r < 0.8, and 2.0 when r = 0 or the
\* direction has no samples.
C20_MultiplierOfPositiveRange ==
  processed > 0 =>
    \A d \in {"left", "right", "up", "down"} :
      Multiplier(d) =
        IF Len(phaseData[d]) > 0 /\ ObservedRange(d) > 0
        THEN Boost(ObservedRange(d))
        ELSE 20000

\* a run with range 0.9 for left and 0.3 for right: the multipliers are 1.0
\* and 2.0
C20_Witness ==
  /\ processed = 1
  /\ Len(phaseData.left) > 0 /\ ObservedRange("left") = 9000
  /\ Len(phaseData.right) > 0 /\ ObservedRange("right") = 3000
  /\ Multiplier("left") = 10000
  /\ Multiplier("right") = 20000

----------------------------------------------------------------------------
(* C21: the overall scale of a computed profile *)

\* C21: on completion the overall scale of the profile is the arithmetic
\* mean of the four per-direction multipliers, and it is the value installed
\* as the scaling factor of the gaze processor.
C21_MeanInstalled ==
  [][processed' # processed =>
       LET m == calibrationData'.directionScaling[1]
           overall == calibrationData'.scalingFactor[1]
       IN  /\ 4 * overall = m["left"] + m["right"] + m["up"] + m["down"]
           /\ scalingFactor' = overall]_vars

\* a run with multipliers 1.0, 2.0, 1.8 and 2.0 has installed their mean 1.7
C21_Witness ==
  /\ processed = 1
  /\ Multiplier("left") = 10000
  /\ Multiplier("right") = 20000
  /\ Multiplier("up") = 18000
  /\ Multiplier("down") = 20000
  /\ calibrationData.scalingFactor = Some(17000)
  /\ scalingFactor = 17000

----------------------------------------------------------------------------
(* C22: skip and the profile in use *)

\* C22: after skip(), whatever profile was loaded or computed before, the
\* samples are scaled with the overall scale 2.0 and with no per-direction
\* scaling: the scaling of either axis is 2.0 for an offset to either side.
C22_SkipLeavesDefaultProfile ==
  [][~overlayHidden /\ overlayHidden' =>
       /\ scalingFactor' = 20000
       /\ \A offset \in {-1, 1} :
            /\ AxisScaling(offset, "left", "right")' = 20000
            /\ AxisScaling(offset, "up", "down")' = 20000]_vars

----------------------------------------------------------------------------
(* C23: the params of the subscribe request *)

\* C23: the subscribe request (id 6) carries as params an object holding
\* the authToken, the sessionID and the configured list of stream names.
C23_SubscribeParams ==
  [][(Len(sent') > Len(sent) /\ sent'[Len(sent')].id = 6) =>
       sent'[Len(sent')].params =
         {<<"cortexToken", authToken'>>, <<"session", sessionID'>>}
           \cup ArrayPairs("streams.", Streams)]_vars

----------------------------------------------------------------------------
(* C24: malformed frames *)

\* C24: a malformed inbound frame is dropped silently: a frame with no
\* warning, no error, no id and no com payload, and a response with a
\* registered id but no result, raise nothing out of the message listener
\* and leave the session and the menu as they are.
C24_MalformedFrameDropped ==
  [][\/ /\ UNCHANGED <<sessionVars, menuVars>>
        /\ lastEvent'.outcome # "raised"
     \/ \A m \in {EmptyMessage} \cup { r \in Responses : r.result = NoResult } :
          ~(/\ socket = "open"
            /\ m.id = NoId \/ m.id \in handlers
            /\ OnMessage(m))]_vars

----------------------------------------------------------------------------
(* C25: a storage failure is treated as absence *)

\* an item that is missing, or that is not JSON
Unusable(stored) == stored = Null \/ stored = Some(NotJSON)

\* C25: when the persisted credentials are missing or malformed,
\* getCredentials() returns null and initialize() creates no device session
\* and opens no socket; when the persisted calibration is missing or
\* malformed, loadCalibrationData() returns false (the calibration timeout
\* shows the overlay) and the processor keeps the base scale 2.0 with no
\* per-direction profile; neither case raises.
C25_StorageFailureIsAbsence ==
  /\ [](Unusable(storedCredentials) =>
          /\ getCredentials(storedCredentials) = Null
          /\ socket = Undefined
          /\ commandHandler = Undefined
          /\ sent = <<>>)
  /\ [](Unusable(storedCalibration) =>
          /\ ~LoadsCalibration
          /\ scalingFactor = 20000
          /\ trackerCalibration = Null)
  /\ [][(Unusable(storedCalibration) /\ startupPending /\ ~startupPending')
          => ~overlayHidden']_vars
  /\ [](lastEvent.outcome # "raised")

\* on a page with malformed credentials and a malformed calibration,
\* initialize() has returned without a session, the calibration timeout has
\* shown the overlay, and a frame was processed at scale 2.0
C25_Witness ==
  /\ storedCredentials = Some(NotJSON)
  /\ storedCalibration = Some(NotJSON)
  /\ lastEvent.outcome = "no credentials"
  /\ socket = Undefined
  /\ ~startupPending
  /\ ~overlayHidden
  /\ frames > 0
  /\ scalingFactor = 20000

----------------------------------------------------------------------------
(* C26: one request per id *)

\* C26: at most one request per id is outstanding: no handshake request is
\* sent a second time while, or after, its first instance was sent.
C26_NoRequestSentTwice ==
  \A id \in REQUEST_ACCESS_ID..SUB_REQUEST_ID : SentCount(id) <= 1

----------------------------------------------------------------------------
(* C27: the handshake makes progress *)

\* C27: if the socket opens, the device list is not empty and every request
\* sent is eventually answered by one success response with its id, the
\* session eventually sends subscribe, and when it has, headsetID, authToken
\* and sessionID are all defined; warnings and command events arriving in
\* between do not prevent this.
C27_HandshakeProgress ==
  /\ (socket = "open") ~> (SentCount(SUB_REQUEST_ID) > 0)
  /\ [](SentCount(SUB_REQUEST_ID) > 0 =>
          /\ headsetID # Undefined
          /\ authToken # Undefined
          /\ sessionID # Undefined)

\* subscribe was sent on a session during which a command event selected a
\* menu section and a warning arrived
C27_Witness ==
  /\ SentCount(SUB_REQUEST_ID) = 1
  /\ headsetID # Undefined /\ authToken # Undefined /\ sessionID # Undefined
  /\ currentMenu # NullMenu
  /\ lastEvent.outcome = "warning"

----------------------------------------------------------------------------
(* C28: the parameters of createSession *)

\* the request sent by this step, when it sends one
Sending(id) == Len(sent') > Len(sent) /\ sent'[Len(sent')].id = id

----------------------------------------------------------------------------
(* C29: a debounced command is dropped for good *)

\* C29: a command dropped by the debounce is dropped entirely: it is never
\* delivered later (the menu changes only in the step that accepts a
\* command, by the effect of that command, or by clearSelection), and the
\* drop does not restart the window (the last-action time stays, so after
\* drops the next command that comes 1000 ms or more after the last
\* accepted one is accepted). With commands every 400 ms after one accepted
\* at t, those at t+1200 and t+2400 are accepted.
C29_DroppedForGood ==
  /\ [][<<currentMenu, executed>>' # <<currentMenu, executed>> =>
          \/ lastEvent'.outcome = "cleared"
          \/ \E m \in CommandEvents : Accepted(m) /\ OnMessage(m)]_vars
  /\ [][lastEvent'.outcome = "debounced" =>
          lastActionTime' = lastActionTime]_vars
  /\ [][\A m \in CommandEvents :
          (/\ lastEvent.outcome = "debounced"
           /\ now - lastActionTime \in {1200, 2400}
           /\ socket = "open" /\ m.com[2] > 50
           /\ OnMessage(m)) =>
            lastActionTime' = now /\ lastEvent'.outcome = "accepted"]_vars

\* commands were accepted at page load (a section selected), 1200 ms later
\* and 2400 ms later (two actions executed)
C29_Witness ==
  /\ now = PageLoadTime + 2400
  /\ lastActionTime = now
  /\ lastEvent.outcome = "accepted"
  /\ currentMenu # NullMenu
  /\ Len(executed) = 2

----------------------------------------------------------------------------
(* C30: skip during a run *)

\* a run is under way, with a collection or pause timer pending
ActiveWindow == isCalibrating /\ timer.stage \in {"collecting", "pause"}

\* C30: skip() during an active calibration window does not cancel the
\* pending timers: the step that hides the overlay during the window sets
\* the scale 2.0 and leaves the timer, the samples, the phase and the
\* directions entered as they are; the timers still fire, the remaining
\* directions are entered, and the run completes and installs the profile
\* it computed over the scale skip() had set.
C30_SkipCancelsNothing ==
  /\ [][(ActiveWindow /\ ~overlayHidden /\ overlayHidden') =>
          /\ scalingFactor' = 20000
          /\ UNCHANGED <<timer, samples, phaseData, currentPhase, entered,
                         isCalibrating, processed>>]_vars
  /\ (ActiveWindow /\ overlayHidden) ~>
       (/\ processed = 1
        /\ entered = Directions
        /\ scalingFactor = calibrationData.scalingFactor[1]
        /\ trackerCalibration = calibrationData.directionScaling)

\* the overlay was hidden by skip() during the run, and the run has gone on
\* to its end and installed the scale 1.75 it computed
C30_Witness ==
  /\ timer.stage = "closing"
  /\ overlayHidden
  /\ processed = 1
  /\ entered = Directions
  /\ scalingFactor = 17500
  /\ calibrationData.scalingFactor = Some(17500)

----------------------------------------------------------------------------
(* C31: the stored profile comes back as it was installed *)

\* the number a stored item holds under a path, read digit by digit
StoredNumber(path) ==
  LET held == { m \in storedCalibration[1].json : m[1] = path }
      ds == (CHOOSE m \in held : TRUE)[2]
  IN  IF held # {} /\ Len(ds) = 5
      THEN 10000 * ds[1] + 1000 * ds[2] + 100 * ds[3] + 10 * ds[4] + ds[5]
      ELSE -1

\* the base scale and the four multipliers of the gaze processor are those
\* the stored item holds
AsStored ==
  /\ scalingFactor = StoredNumber("scalingFactor")
  /\ trackerCalibration # Null
  /\ \A d \in {"left", "right", "up", "down"} :
       trackerCalibration[1][d] = StoredNumber("directionScaling." \o d)

\* C31: a profile saved on completion and loaded at the next startup gives
\* the gaze processor the same base scale and the same four per-direction
\* multipliers as right after the run that produced it: the item written on
\* completion holds the values then installed, the item stays as it is
\* until the next completion, and a load installs the values it holds.
C31_PersistenceRoundTrip ==
  /\ [][processed' > processed => AsStored']_vars
  /\ [][storedCalibration' # storedCalibration => processed' > processed]_vars
  /\ [][(startupPending /\ ~startupPending' /\ storedCalibration # Null) =>
          AsStored']_vars

\* a run with the multipliers 1.0, 2.0, 1.8, 2.0 and the scale 1.7 was
\* stored, the page was loaded again, and the calibration timeout loaded
\* the same values
C31_Witness ==
  /\ processed = 0
  /\ entered = <<>>
  /\ ~startupPending
  /\ overlayHidden
  /\ scalingFactor = 17000
  /\ trackerCalibration =
       Some([left |-> 10000, right |-> 20000, up |-> 18000, down |-> 20000])

----------------------------------------------------------------------------
(* C32: a frame without a face *)

\* C32: a frame with no detected face changes no processor state: both
\* Kalman filters (estimate and uncertainty), the smoothed offsets and the
\* previous point are after the frame what they were before it, and draw()
\* is not called (no sample is counted); the next detected sample is
\* clamped against the point held.
C32_NoFaceHolds ==
  /\ [][gazeOp' = "no face" =>
          UNCHANGED <<kalmanFilterX, kalmanFilterY, smoothedOffsetX,
                      smoothedOffsetY, prevCanvasX, prevCanvasY, frames>>]_vars
  /\ [][(gazeOp = "no face" /\ gazeOp' = "sample" /\ prevCanvasX # Null) =>
          /\ Abs(prevCanvasX'[1] - prevCanvasX[1])
               <= canvas.width * MaxStepFraction
          /\ Abs(prevCanvasY'[1] - prevCanvasY[1])
               <= canvas.height * MaxStepFraction]_vars

\* a frame without a face came after a sample that had moved the filters,
\* the smoothed offset and the previous point
C32_Witness ==
  /\ gazeOp = "no face"
  /\ frames > 0
  /\ kalmanFilterX.state # 0
  /\ smoothedOffsetX # 0
  /\ prevCanvasX # Null

----------------------------------------------------------------------------
(* C33: calibration on demand *)

\* C33: calibration can run again: whenever the overlay is shown and no run
\* is under way (before the first run, after a skip, after a completed
\* run), the start button accepts a click, so that a new run can begin.
C33_CalibrationRunsAgain ==
  (~overlayHidden /\ ~isCalibrating) => ~startBtnDisabled

----------------------------------------------------------------------------
(* C34: the menu state under commands of any name *)

\* C34: under any interleaving of accepted commands and clearSelection
\* calls, currentMenu is null or the index (0..2) of an existing section,
\* and an accepted command whose name is none of push, pull, lift changes
\* neither currentMenu nor the actions executed.
C34_MenuInvariant ==
  /\ [](currentMenu = NullMenu \/ currentMenu \in 0..(Len(MenuSections) - 1))
  /\ [][\A m \in CommandEvents :
          (/\ m.com[1] \notin {"push", "pull", "lift"}
           /\ Accepted(m)
           /\ OnMessage(m)) =>
            currentMenu' = currentMenu /\ executed' = executed]_vars

\* a command was accepted and no section is selected: its name was none of
\* the three
C34_Witness ==
  /\ lastEvent.outcome = "accepted"
  /\ lastActionTime = now
  /\ currentMenu = NullMenu
  /\ executed = <<>>

----------------------------------------------------------------------------
(* C35: one device session at a time *)

\* the Headset objects whose socket was opened and never closed
LiveSockets == earlier + (IF socket = Undefined THEN 0 ELSE 1)

\* C35: over any sequence of login, clear-credentials and re-login events
\* at most one socket is left whose command events reach the
\* MenuNavigator: initialize() called again leaves no earlier Headset
\* connected.
C35_OneDeviceSession == LiveSockets <= 1

----------------------------------------------------------------------------
(* C36: the bound of the undo history *)

\* C36: after any sequence of startDrawing, stopDrawing, toggleEraser,
\* clearCanvas, undo and redo the undo stack holds at most 20 snapshots and
\* the two stacks together hold at most 20; undo with an empty undo stack
\* and redo with an empty redo stack change neither stack nor the canvas.
C36_HistoryBound ==
  /\ Len(undoStack) <= 20
  /\ Len(undoStack) + Len(redoStack) <= 20
  /\ undoStack = <<>> => undone(Drawing) = Drawing
  /\ redoStack = <<>> => redone(Drawing) = Drawing

\* the undo stack is full and there is nothing to redo
C36_Witness ==
  /\ Len(undoStack) = 20
  /\ redoStack = <<>>
  /\ isDrawing

----------------------------------------------------------------------------
(* C37: undo and redo as a round trip *)

\* the snapshot undo() would restore
TopSnapshot == undoStack[Len(undoStack)]

\* a step of redo() that had something to redo
RedoStep ==
  /\ redoStack # <<>>
  /\ Len(redoStack') = Len(redoStack) - 1
  /\ content' = restoreCanvasState(redoStack[Len(redoStack)])

\* a newly saved snapshot leaves nothing to redo
SaveEmptiesRedo ==
  (Len(undoStack') > Len(undoStack) /\ ~RedoStep) =>
    redoStack' = <<>> /\ redone(Drawing)' = Drawing'

\* C37: with a non-empty undo stack, undo() followed at once by redo()
\* restores the canvas content and both stacks; every newly saved
\* snapshot empties the redo stack, so that redo() after it is a no-op.
C37_RoundTrip ==
  /\ [](undoStack # <<>> => redone(undone(Drawing)) = Drawing)
  /\ [][SaveEmptiesRedo]_vars

\* C37 as the code has it: undo() followed at once by redo() restores the
\* canvas content, the redo stack and the length of the undo stack, and
\* the undo stack itself when its top snapshot was taken at the size the
\* canvas has now (otherwise the top is replaced by its rescaled image);
\* every newly saved snapshot empties the redo stack.
C37_RoundTripAtSameSize ==
  /\ [](undoStack # <<>> =>
          LET back == redone(undone(Drawing)) IN
          /\ back.content = content
          /\ back.redoStack = redoStack
          /\ Len(back.undoStack) = Len(undoStack)
          /\ (TopSnapshot.width = canvas.width
                /\ TopSnapshot.height = canvas.height) => back = Drawing)
  /\ [][SaveEmptiesRedo]_vars

\* a stroke was painted since the snapshot on top of the undo stack was
\* taken, at the size the canvas still has
C37_Witness ==
  /\ undoStack # <<>>
  /\ TopSnapshot.width = canvas.width
  /\ TopSnapshot.height = canvas.height
  /\ content # <<>>
  /\ TopSnapshot.data # content
  /\ undone(Drawing).content # content

----------------------------------------------------------------------------
(* C38: drawing and erasing *)

\* C38: in every reachable state isErasing implies isDrawing, and a stroke
\* begun by startDrawing() (isDrawing turns true, the eraser is not
\* toggled) is painted, not erased: the eraser is off after it, whatever
\* sequence of toggleEraser, stopDrawing and startDrawing came before.
C38_ModeConsistency ==
  /\ [](isErasing => isDrawing)
  /\ [][(~isDrawing /\ isDrawing' /\ isErasing' = isErasing) =>
          ~isErasing']_vars

----------------------------------------------------------------------------
(* C39: the countdown blocks the canvas *)

\* C39: while shouldBlockInputs() is true no gaze sample moves the cursor
\* or paints, and startDrawing, toggleEraser, clearCanvas, undo, redo and
\* setColor, from a key or from a menu command, change neither the canvas
\* nor isErasing, the colour or the two stacks, and do not turn isDrawing
\* on (stopDrawing, which the countdown does not block, may turn it off).
C39_TimeUpInterlock ==
  [][isTimeUp =>
       /\ UNCHANGED <<content, isErasing, currentColor, undoStack, redoStack,
                      prevCanvasX, prevCanvasY, frames>>
       /\ isDrawing' => isDrawing]_vars

\* the time ran out during a stroke begun from the menu: the Toggle Eraser
\* command accepted after it left the eraser off, and a gaze sample was
\* dropped
C39_Witness ==
  /\ isTimeUp
  /\ gazeOp = "blocked"
  /\ Len(executed) = 2
  /\ executed[1].name = "Start Drawing"
  /\ executed[2].name = "Toggle Eraser"
  /\ isDrawing /\ ~isErasing
  /\ content # <<>>

----------------------------------------------------------------------------
(* C40: the overall scale stays positive *)

\* C40: from 2.0, under any interleaving of increaseSensitivity,
\* decreaseSensitivity, the completion of a calibration run, the load of a
\* stored profile and skip, scalingFactor is strictly positive.
C40_ScalePositive == scalingFactor > 0

\* ArrowDown has taken a computed scale below the step of 0.5
C40_Witness ==
  /\ scalingFactor > 0
  /\ scalingFactor < SensitivityStep
  /\ trackerCalibration # Null
  /\ decreaseSensitivity(scalingFactor) = scalingFactor

====
